---------------------------- MODULE Spec2Model ----------------------------
(***************************************************************************)
(* A model of the stereophonic voice engine: the ADSR envelope, the table  *)
(* player, the playback event state machine and the engine's admission     *)
(* queue, active set, lock and stream callback.                            *)
(*                                                                         *)
(* Conventions.  Times given in seconds are counted in quanta of           *)
(* 1/TimeDen second; a sample rate is a number of frames per second, so a  *)
(* time of q quanta at rate sr is q*sr/TimeDen frames before rounding.     *)
(* The phase of a table player is counted in units of 1/PhaseScale frame.  *)
(* Sample values, envelope levels and multipliers, gains and the filters   *)
(* are floating point data that no branch of the modelled code reads; they *)
(* are left out (the two balance multipliers excepted, counted in          *)
(* 1/BalanceDen), and a tick's output is recorded by its kind only:        *)
(* "silence" (the literal 0.0, 0.0) or "table" (computed from the frame    *)
(* read at int(phase)).  A table is never changed once it is loaded, so a  *)
(* reference to a table is modelled by the table.  Where a test of the     *)
(* code is a definition of its own, a variant of the test is defined       *)
(* before it, for comparison.                                              *)
(***************************************************************************)
EXTENDS Integers, Sequences, FiniteSets

(***************************************************************************)
(* Bounds of the model.                                                    *)
(***************************************************************************)
\* capacity of the admission channel (128 in the source, scaled down)
QueueCap == 2
\* number of events one Play call may pass
MaxPlay == 2
\* number of playback events that can be prepared
MaxEvents == 2
\* Spec: an event is ticked at most this many times
MaxTicks == 2
\* SpecEvent: an event is ticked at most this many times
MaxEventTicks == 6
\* largest frames-per-buffer of the stream
MaxFramesPerBuffer == 2
\* SpecTablePlayer: the number of frames of the longer table
MaxTableFrames == 3
\* largest delay / duration argument of Prepare, in quanta
MaxQuanta == 4
\* largest envelope time argument, in quanta
MaxStageQuanta == 4
\* SpecADSR: the envelope leaves its release stage at most this many times
MaxOffCount == 2
LevelCap == 100
MaxCalls == 2
CutoffDen == 2
MaxSample == 4
MaxPlayerTicks == 6
\* SpecScenario: the frames of the table, and of the event's duration
ScenarioFrames == 100
\* SpecScenario: ticks past the end of the duration
ScenarioTail == 5

(***************************************************************************)
(* Representation of the floating point arguments.                         *)
(***************************************************************************)
\* quanta per second
TimeDen == 2

\* Go's int(x) of the rational num/den (den > 0): truncation toward zero
Trunc(num, den) == IF num >= 0 THEN num \div den ELSE -((-num) \div den)

\* math.Floor(math.Max(seconds*sampleRate, 0.0)) for seconds = q quanta
FloorFrames(q, sr) == (IF q * sr > 0 THEN q * sr ELSE 0) \div TimeDen

Min(a, b) == IF a < b THEN a ELSE b

(***************************************************************************)
(* adsr.go: the envelope.  stage[attack], stage[decay] and stage[release]  *)
(* are frame counts; the sustain level, currentLevel and multiplier are    *)
(* levels and are left out.                                                *)
(***************************************************************************)
adsrOffStage == "Off"
adsrAttackStage == "Attack"
adsrDecayStage == "Decay"
adsrSustainStage == "Sustain"
adsrReleaseStage == "Release"

\* stage[currentStage] of the stages that have a frame count
adsrStageFrames(adsr) ==
    CASE adsr.currentStage = adsrAttackStage -> adsr.attack
      [] adsr.currentStage = adsrDecayStage -> adsr.decay
      [] adsr.currentStage = adsrReleaseStage -> adsr.release
      [] OTHER -> 0

setAttack(adsr, q) == [adsr EXCEPT !.attack = FloorFrames(q, adsr.sampleRate)]
setDecay(adsr, q) == [adsr EXCEPT !.decay = FloorFrames(q, adsr.sampleRate)]
setRelease(adsr, q) == [adsr EXCEPT !.release = FloorFrames(q, adsr.sampleRate)]

\* attack(): enter the attack stage from the beginning
attack(adsr) == [adsr EXCEPT !.currentStage = adsrAttackStage, !.currentTick = 0]

\* release(): enter the release stage from the beginning
release(adsr) == [adsr EXCEPT !.currentStage = adsrReleaseStage, !.currentTick = 0]

setDoneAction(adsr) == [adsr EXCEPT !.doneAction = TRUE]

newADSREnvelope(attackQ, decayQ, releaseQ, sr) ==
    attack(setRelease(setDecay(setAttack(
        [sampleRate |-> sr, attack |-> 0, decay |-> 0, release |-> 0,
         currentStage |-> adsrOffStage, currentTick |-> 0,
         doneAction |-> FALSE, ranDoneAction |-> FALSE],
        attackQ), decayQ), releaseQ))

\* whether tick() leaves its stage on this call (no ticks left in it)
\* Levels are fixed-point numbers in units of 1/LevelOne, multipliers and
\* logarithms in units of 1/MultiplierOne; adsrMinimumLevel is 0.0001.
LevelOne == 1000000
MultiplierOne == 1000
adsrMinimumLevel == LevelOne \div 10000

\* math.Log of the levels the envelope passes to calculateLevelMultiplier:
\* 1.0, the sustain levels 0.5 and 1.0, and adsrMinimumLevel
Log(x) ==
    CASE x = LevelOne -> 0
      [] x = LevelOne \div 2 -> -693
      [] x = adsrMinimumLevel -> -9210

calculateLevelMultiplier(startLevel, targetLevel, numberOfFrames) ==
    IF numberOfFrames < 1
    THEN MultiplierOne + (Log(targetLevel) - Log(startLevel))
    ELSE MultiplierOne + (Log(targetLevel) - Log(startLevel)) \div numberOfFrames

\* a stage that lasts one tick longer than its frame count
adsrStageOverLate(adsr) ==
    /\ adsr.currentStage \notin {adsrOffStage, adsrSustainStage}
    /\ ~(adsr.currentTick <= adsrStageFrames(adsr))

adsrStageOver(adsr) ==
    /\ adsr.currentStage \notin {adsrOffStage, adsrSustainStage}
    /\ ~(adsr.currentTick < adsrStageFrames(adsr))

\* the guard of the done action in the release -> off branch (variant: the
\* ranDoneAction flag is not consulted)
adsrRunsDoneActionAlways(adsr) == adsr.doneAction
adsrRunsDoneAction(adsr) == adsr.doneAction /\ ~adsr.ranDoneAction

\* whether this tick() calls the done action
adsrDone(adsr) ==
    /\ adsrStageOver(adsr)
    /\ adsr.currentStage = adsrReleaseStage
    /\ adsrRunsDoneAction(adsr)

\* tick(): the envelope after the call
adsrTick(adsr) ==
    IF adsr.currentStage \in {adsrOffStage, adsrSustainStage} THEN adsr
    ELSE IF adsr.currentTick < adsrStageFrames(adsr)
    THEN [adsr EXCEPT !.currentTick = @ + 1]
    ELSE CASE adsr.currentStage = adsrAttackStage ->
                [adsr EXCEPT !.currentTick = 0, !.currentStage = adsrDecayStage]
           [] adsr.currentStage = adsrDecayStage ->
                [adsr EXCEPT !.currentTick = 0, !.currentStage = adsrSustainStage]
           [] adsr.currentStage = adsrReleaseStage ->
                [adsr EXCEPT !.currentTick = 0, !.currentStage = adsrOffStage,
                             !.ranDoneAction = @ \/ adsrDone(adsr)]

(***************************************************************************)
(* tableplayer.go: one voice over a table.  A table is a record            *)
(* [nFrames, channels, sampleRate].                                        *)
(***************************************************************************)
\* phase units per frame
PhaseScale == 2

\* the default envelope times of NewTablePlayer, in whole quanta: 0.0, 1.0
\* and 0.001 second (the last is less than a quantum, and less than a frame
\* at the sample rates of the model)
defaultADSRAttack == 0
defaultADSRDecay == 1 * TimeDen
defaultADSRRelease == Trunc(1 * TimeDen, 1000)
\* the control rate of the filter envelope
kRate == 100
\* the balance and the balance multipliers are counted in 1/BalanceDen, the
\* arguments of SetSlice and SetLoopSlice in 1/SliceDen
BalanceDen == 2
SliceDen == 4

NewTablePlayer(t, sampleRate) ==
    [sampleRate |-> sampleRate,
     table |-> t,
     amplitudeADSREnvelope |->
        newADSREnvelope(defaultADSRAttack, defaultADSRDecay, defaultADSRRelease, sampleRate),
     filterADSREnvelope |->
        newADSREnvelope(defaultADSRAttack, defaultADSRDecay, defaultADSRRelease, sampleRate),
     filterEnvelopeOn |-> FALSE,
     phase |-> 0,
     \* SetSpeed(1.0): speed * srFactor, srFactor = t.sampleRate / sampleRate
     phaseIncrement |-> (PhaseScale * t.sampleRate) \div sampleRate,
     targetPhaseIncrement |-> (PhaseScale * t.sampleRate) \div sampleRate,
     slideFactor |-> 0,
     isLooping |-> FALSE,
     isReversed |-> FALSE,
     isFinished |-> FALSE,
     start |-> 0,
     end |-> t.nFrames - 1,
     loopStart |-> 0,
     loopEnd |-> t.nFrames - 1,
     kCurrentTick |-> 0,
     kMaxTicks |-> Trunc(sampleRate, kRate) + 1,
     balanceMultiplierLeft |-> BalanceDen,
     balanceMultiplierRight |-> BalanceDen]

\* the phase increment after the slide step of tick() (variant: no slide)
slideNever(tp) == tp.phaseIncrement
slidePhaseIncrement(tp) ==
    CASE tp.phaseIncrement = tp.targetPhaseIncrement -> tp.phaseIncrement
      [] tp.phaseIncrement < tp.targetPhaseIncrement ->
            Min(tp.phaseIncrement + tp.slideFactor, tp.targetPhaseIncrement)
      [] OTHER ->
            IF tp.phaseIncrement - tp.slideFactor < tp.targetPhaseIncrement
            THEN tp.targetPhaseIncrement
            ELSE tp.phaseIncrement - tp.slideFactor

\* the output of tick(): silence when finished, else computed from the table
\* (variant: a finished player still reads the table)
tablePlayerOutNeverSilent(tp) == "table"
tablePlayerOut(tp) == IF tp.isFinished THEN "silence" ELSE "table"

\* whether this tick() runs the amplitude envelope's done action
tablePlayerDone(tp) == adsrDone(tp.amplitudeADSREnvelope)

\* the envelopes and the control-rate counter after one tick() (variant:
\* only the amplitude envelope is ticked)
tickEnvelopesAmplitudeOnly(tp) == [tp EXCEPT !.amplitudeADSREnvelope = adsrTick(@)]
tickEnvelopes(tp) ==
    [tp EXCEPT !.amplitudeADSREnvelope = adsrTick(@),
               !.filterADSREnvelope = IF tp.filterEnvelopeOn THEN adsrTick(@) ELSE @,
               !.kCurrentTick = IF tp.filterEnvelopeOn THEN (@ + 1) % tp.kMaxTicks ELSE @]

\* whether this tick() takes a player that is not looping past its end
passesEnd(tp) ==
    /\ ~tp.isFinished /\ ~tp.isLooping
    /\ Trunc(tp.phase + tp.phaseIncrement, PhaseScale) > tp.end

\* "tp.phase = float64(end); tp.isFinished = true" (variant: the flag is
\* left alone)
finishAtEndUnflagged(moved, end) == [moved EXCEPT !.phase = end * PhaseScale]
finishAtEnd(moved, end) == [moved EXCEPT !.phase = end * PhaseScale, !.isFinished = TRUE]

\* tick() of a player that is not finished, after the table has been read:
\* the envelopes are ticked, "tp.phase += tp.phaseIncrement", and the phase
\* increment slides towards its target
tickMove(tp) ==
    [tickEnvelopes(tp) EXCEPT !.phase = tp.phase + tp.phaseIncrement,
                              !.phaseIncrement = slidePhaseIncrement(tp)]

\* the end of tick(): "next := int(tp.phase)" and the bounds are read, the
\* phase is wrapped (looping) or the player finished (not looping)
tickWrap(moved) ==
    LET next == Trunc(moved.phase, PhaseScale)
        forwardsPlayback == moved.phaseIncrement >= 0
    IN  IF moved.isLooping
        THEN CASE forwardsPlayback /\ moved.loopEnd < next ->
                    [moved EXCEPT !.phase = moved.loopStart * PhaseScale]
               [] ~forwardsPlayback /\ next < moved.loopStart ->
                    [moved EXCEPT !.phase = moved.loopEnd * PhaseScale]
               [] OTHER -> moved
        ELSE CASE next > moved.end -> finishAtEnd(moved, moved.end)
               [] next < moved.start ->
                    [moved EXCEPT !.phase = moved.start * PhaseScale, !.isFinished = TRUE]
               [] OTHER -> moved

\* tick(): the table player after the call
tablePlayerTick(tp) ==
    IF tp.isFinished THEN tickEnvelopes(tp) ELSE tickWrap(tickMove(tp))

\* Attack(): both envelopes re-enter their attack stage
Attack(tp) == [tp EXCEPT !.amplitudeADSREnvelope = attack(@),
                         !.filterADSREnvelope = attack(@)]

\* Release(): both envelopes enter their release stage
Release(tp) == [tp EXCEPT !.amplitudeADSREnvelope = release(@),
                          !.filterADSREnvelope = release(@)]

SetLooping(tp, loopingOn) ==
    [tp EXCEPT !.isFinished = IF loopingOn THEN FALSE ELSE @,
               !.isLooping = loopingOn]

\* math.Min(math.Max(0, x), 1.0) of an argument of x/SliceDen
clampSlice(x) == IF x < 0 THEN 0 ELSE IF x > SliceDen THEN SliceDen ELSE x
\* int(float64(tp.table.nFrames-1) * x) for a clamped argument
sliceFrame(tp, x) == Trunc((tp.table.nFrames - 1) * x, SliceDen)
\* the check "d >= 1" on the width e - s (variant: d >= 0)
sliceWideEnoughOrEmpty(d) == d >= 0
sliceWideEnough(d) == d >= 1

SetSlice(tp, start, end) ==
    LET s == sliceFrame(tp, clampSlice(start))
        e == sliceFrame(tp, clampSlice(end))
    IN  IF clampSlice(start) < clampSlice(end) /\ sliceWideEnough(e - s)
        THEN [tp EXCEPT !.start = s, !.end = e]
        ELSE tp

SetLoopSlice(tp, loopStart, loopEnd) ==
    LET s == sliceFrame(tp, clampSlice(loopStart))
        e == sliceFrame(tp, clampSlice(loopEnd))
    IN  IF clampSlice(loopStart) < clampSlice(loopEnd) /\ sliceWideEnough(e - s)
        THEN [tp EXCEPT !.loopStart = s, !.loopEnd = e]
        ELSE tp

\* a Trigger() that restarts the envelopes as well
TriggerAttacking(tp) ==
    [Attack(tp) EXCEPT !.phase = PhaseScale * (IF tp.isReversed THEN tp.end ELSE tp.start),
                       !.isFinished = FALSE]

Trigger(tp) ==
    [tp EXCEPT !.phase = PhaseScale * (IF tp.isReversed THEN tp.end ELSE tp.start),
               !.isFinished = FALSE]

\* SetSpeed(speed, slideTime) for a speed of speedP/PhaseScale and a slide
\* time of slideQ quanta (0: none given); srFactor is
\* table.sampleRate/sampleRate.  The quotients are exact for the arguments
\* of the model.
SetSpeed(tp, speedP, slideQ) ==
    IF speedP <= 0 THEN tp
    ELSE LET currentSpeed == tp.phaseIncrement
             unsigned == (speedP * tp.table.sampleRate) \div tp.sampleRate
             targetSpeed == IF currentSpeed < 0 THEN -unsigned ELSE unsigned
             distance == IF targetSpeed < currentSpeed THEN currentSpeed - targetSpeed
                         ELSE targetSpeed - currentSpeed
         IN  IF slideQ > 0
             THEN [tp EXCEPT !.targetPhaseIncrement = targetSpeed,
                             !.slideFactor =
                                 (distance * TimeDen) \div (slideQ * tp.sampleRate)]
             ELSE [tp EXCEPT !.targetPhaseIncrement = targetSpeed,
                             !.phaseIncrement = targetSpeed]

\* SetReverse (variant: the phase increments are left alone)
SetReverseFlagOnly(tp, isReversed) == [tp EXCEPT !.isReversed = isReversed]
SetReverse(tp, isReversed) ==
    LET invert == \/ tp.phaseIncrement > 0 /\ isReversed
                  \/ tp.phaseIncrement < 0 /\ ~isReversed
    IN  [tp EXCEPT !.isReversed = isReversed,
                   !.phaseIncrement = IF invert THEN -@ ELSE @,
                   !.targetPhaseIncrement = IF invert THEN -@ ELSE @]

SetFilterEnvelopeOn(tp, filterEnvelopeOn) ==
    [tp EXCEPT !.filterEnvelopeOn = filterEnvelopeOn]

\* the check "balance < -1.0 || 1.0 < balance" (variant: nothing is rejected)
balanceOutOfRangeNever(balance) == FALSE
balanceOutOfRange(balance) == balance < -BalanceDen \/ BalanceDen < balance

SetBalance(tp, balance) ==
    IF balanceOutOfRange(balance) THEN tp
    ELSE CASE balance = 0 ->
                [tp EXCEPT !.balanceMultiplierLeft = BalanceDen,
                           !.balanceMultiplierRight = BalanceDen]
           [] 0 < balance ->
                [tp EXCEPT !.balanceMultiplierLeft = BalanceDen - balance,
                           !.balanceMultiplierRight = BalanceDen]
           [] balance < 0 ->
                [tp EXCEPT !.balanceMultiplierLeft = BalanceDen,
                           !.balanceMultiplierRight = BalanceDen + balance]

SetAmplitudeAttack(tp, q) == [tp EXCEPT !.amplitudeADSREnvelope = setAttack(@, q)]
SetAmplitudeDecay(tp, q) == [tp EXCEPT !.amplitudeADSREnvelope = setDecay(@, q)]
SetAmplitudeRelease(tp, q) == [tp EXCEPT !.amplitudeADSREnvelope = setRelease(@, q)]

(***************************************************************************)
(* playbackevent.go: the playback event.                                   *)
(***************************************************************************)
playbackLimitedDuration == "LimitedDuration"
playbackUnlimitedDuration == "UnlimitedDuration"
playbackDelay == "Delay"

\* the event Prepare builds from a table, the stream's sample rate and the
\* delay and duration arguments (in quanta)
\* "isLimitedDuration: durationInSeconds > 0.0" (variant: the duration in
\* frames decides)
limitedByFrames(durationQ, durationInFrames) == durationInFrames > 0
limitedBySeconds(durationQ, durationInFrames) == durationQ > 0

newPlaybackEvent(t, sr, delayQ, durationQ) ==
    LET delay == IF delayQ > 0 THEN delayQ ELSE 0
        tp == NewTablePlayer(t, sr)
    IN  [delayInFrames |-> Trunc(delay * sr, TimeDen),
         durationInFrames |-> Trunc(durationQ * sr, TimeDen),
         tablePlayer |-> [tp EXCEPT !.amplitudeADSREnvelope = setDoneAction(@)],
         currentState |-> IF delay > 0 THEN playbackDelay
                          ELSE IF durationQ > 0 THEN playbackLimitedDuration
                          ELSE playbackUnlimitedDuration,
         isLimitedDuration |->
             limitedBySeconds(durationQ, Trunc(durationQ * sr, TimeDen))]

\* the test "p.durationInFrames > 0" of the limited duration state (variant:
\* >= 0)
hasDurationFramesInclusive(p) == p.durationInFrames >= 0
hasDurationFrames(p) == p.durationInFrames > 0

\* the state an event enters when its delay is over (variant: the
\* isLimitedDuration flag is not consulted)
stateAfterDelayLimited(p) == playbackLimitedDuration
stateAfterDelay(p) ==
    IF p.isLimitedDuration THEN playbackLimitedDuration
    ELSE playbackUnlimitedDuration

\* tick(): what one call does to the event p.  ev: the event after the call;
\* ticked: whether the table player was ticked; released: whether Release()
\* was called by the event itself; done: whether the amplitude envelope ran
\* its done action; out: the kind of frame returned.
RECURSIVE playbackEventTick(_)
playbackEventTick(p) ==
    CASE p.currentState = playbackLimitedDuration ->
            IF hasDurationFrames(p)
            THEN [ev |-> [p EXCEPT !.durationInFrames = @ - 1,
                                   !.tablePlayer = tablePlayerTick(@)],
                  ticked |-> TRUE, released |-> FALSE,
                  done |-> tablePlayerDone(p.tablePlayer),
                  out |-> tablePlayerOut(p.tablePlayer)]
            ELSE [playbackEventTick(
                     [p EXCEPT !.currentState = playbackUnlimitedDuration,
                               !.tablePlayer = Release(@)])
                  EXCEPT !.released = TRUE]
      [] p.currentState = playbackUnlimitedDuration ->
            [ev |-> [p EXCEPT !.tablePlayer = tablePlayerTick(@)],
             ticked |-> TRUE, released |-> FALSE,
             done |-> tablePlayerDone(p.tablePlayer),
             out |-> tablePlayerOut(p.tablePlayer)]
      [] p.currentState = playbackDelay ->
            IF p.delayInFrames > 0
            THEN [ev |-> [p EXCEPT !.delayInFrames = @ - 1],
                  ticked |-> FALSE, released |-> FALSE, done |-> FALSE,
                  out |-> "silence"]
            ELSE playbackEventTick(
                     [p EXCEPT !.currentState = stateAfterDelay(p)])

(***************************************************************************)
(* The engine (unnamed/part_001, lines 95-578) and the state of the model. *)
(***************************************************************************)
VARIABLES
    initialized,            \* Engine.initialized
    started,                \* Engine.started
    stream,                 \* Engine.stream: "nil", or the stream "active" or "stopped"
    streamSampleRate,       \* Engine.streamSampleRate
    streamParameters,       \* Engine.streamParameters
    tables,                 \* Engine.tables: slot -> table
    activePlaybackEvents,   \* Engine.activePlaybackEvents: a set of events
    newPlaybackEvents,      \* Engine.newPlaybackEvents: the buffered channel
    mutex,                  \* Engine.Mutex: TRUE while held
    playPending,            \* the events a running Play call has yet to send
    playPc,                 \* "idle", or "sending" while a Play call holds the lock
    startCall,              \* SpecConfigure: a Start call that holds the lock
    cbPc,                   \* the stream callback: "idle", "drain", "recv", "mix", "panic"
    cbI,                    \* the callback's drain loop index i
    cbN,                    \* the number of output frames the callback has mixed
    cbFrames,               \* len(out)/2 of the running callback
    cbQueued,               \* the channel's content when the running callback began
    cbOut,                  \* the output frame the callback wrote last
    events,                 \* the playback events prepared so far: id -> event
    hist,                   \* per event: what has been observed of it
    ret,                    \* the last call that returned, and its error
    deletedSlots,           \* the slots whose table Delete removed, not loaded since
    adsr,                   \* SpecADSR: an envelope on its own
    adsrHist,               \* SpecADSR: what has been observed of it
    level,                  \* SpecLevel: currentLevel and multiplier of the envelope
    player,                 \* SpecTablePlayer: a table player on its own
    playerHist,             \* SpecTablePlayer: what has been observed of it
    playerCalls,            \* SpecPlayerRace: the calls in progress on the player
    filter                  \* SpecFilter: a filter on its own

vars == <<initialized, started, stream, streamSampleRate, streamParameters, tables,
          activePlaybackEvents, newPlaybackEvents, mutex, playPending, playPc,
          startCall, cbPc, cbI, cbN, cbFrames, cbQueued, cbOut, events, hist, ret, deletedSlots,
          adsr, adsrHist, level, player, playerHist, playerCalls, filter>>

\* the fields of the engine that are not events
engineVars == <<initialized, started, stream, streamSampleRate, streamParameters, tables,
                activePlaybackEvents, newPlaybackEvents>>
playVars == <<mutex, playPending, playPc, startCall>>
cbVars == <<cbPc, cbI, cbN, cbFrames, cbQueued, cbOut>>
adsrVars == <<adsr, adsrHist, level>>
playerVars == <<player, playerHist, playerCalls>>
\* what only Load, Delete and the calls on a lone envelope or player change
idleVars == <<deletedSlots, adsrVars, playerVars, filter>>

\* the slots and the sound files of the model
Slots == {1}
SoundFiles == {[nFrames |-> 2, channels |-> 1, sampleRate |-> 1]}
\* the default sample rate of the default output device
DeviceSampleRate == 1

\* the sequences over S of length at most n
RECURSIVE SeqsUpTo(_, _)
SeqsUpTo(S, n) ==
    IF n = 0 THEN {<<>>}
    ELSE LET shorter == SeqsUpTo(S, n - 1)
         IN  shorter \cup {Append(s, x) : s \in {t \in shorter : Len(t) = n - 1}, x \in S}

\* f with x mapped to v, x added to its domain if need be
Put(f, x, v) == [y \in DOMAIN f \cup {x} |-> IF y = x THEN v ELSE f[y]]

\* the stream parameters New() asks for: those of the default output device
defaultStreamParameters ==
    [sampleRate |-> DeviceSampleRate, framesPerBuffer |-> 0, device |-> "default"]

\* no Start call holds the lock ("opened": a Start call has opened a stream
\* with the stream parameters it read, and has yet to start it)
noStartCall == [pc |-> "idle", parameters |-> defaultStreamParameters]

\* New(): the engine after construction
InitEngine ==
    /\ initialized = TRUE
    /\ started = FALSE
    /\ stream = "nil"
    /\ streamSampleRate = 0
    /\ streamParameters = defaultStreamParameters
    /\ tables = <<>>
    /\ activePlaybackEvents = {}
    /\ newPlaybackEvents = <<>>
    /\ mutex = FALSE
    /\ playPending = <<>>
    /\ playPc = "idle"
    /\ startCall = noStartCall
    /\ cbPc = "idle"
    /\ cbI = 0
    /\ cbN = 0
    /\ cbFrames = 0
    /\ cbQueued = <<>>
    /\ cbOut = 0
    /\ events = <<>>
    /\ hist = <<>>
    /\ ret = [op |-> "New", err |-> "nil"]
    /\ deletedSlots = {}

\* nothing observed of the envelope yet: the runs of its done action, its
\* transitions from the release stage to off, its level, and of its last
\* release() call the stage it was called in, the start level it passed to
\* calculateLevelMultiplier and the level the envelope had.  A level is
\* "adsrMinimumLevel" (0.0001, the level of a new envelope), "sustainLevel"
\* (stage[adsrSustainStage]; the envelope is made with sustain level 1.0, as
\* NewTablePlayer makes its envelopes) or "computed" (the product of a
\* level and multipliers, which the model does not compute)
NewADSRHist ==
    [doneCount |-> 0, offCount |-> 0, currentLevel |-> "adsrMinimumLevel",
     release |-> [stage |-> "none", startLevel |-> "none", currentLevel |-> "none"]]

\* currentLevel, multiplier and stage[adsrSustainStage] of the envelope e as
\* newADSREnvelope leaves them: the level at the minimum, the sustain level
\* clamped by setSustain, the multiplier set by attack().  With them, what
\* has been observed: the last call ("new", "tick", "attack", "release"),
\* the number of ticks that multiplied the level since the stage was
\* entered, the level at that entry, whether attack() has been called on
\* the finished envelope, and the number of attack() and release() calls
\* on it
NewLevel(e, sustainLevel) ==
    [currentLevel |-> adsrMinimumLevel,
     multiplier |-> calculateLevelMultiplier(adsrMinimumLevel, LevelOne, e.attack),
     sustain |-> IF sustainLevel < adsrMinimumLevel THEN adsrMinimumLevel
                 ELSE IF sustainLevel > LevelOne THEN LevelOne ELSE sustainLevel,
     op |-> "new", stageTicks |-> 0, entered |-> adsrMinimumLevel,
     retriggered |-> FALSE, calls |-> 0]

(***************************************************************************)
(* filter.go: the resonant filter.  Samples and the integrators buf0..buf3 *)
(* are integers, the cutoff is a number of 1/CutoffDen (CutoffDen stands   *)
(* for the largest cutoff, 0.9999999999999999); the resonance, and with it *)
(* the feedback, keeps the value 0 newFilter gives it.  With the fields of *)
(* the filter, what has been observed of it: the last call ("new", "tick", *)
(* "setMode", "setCutoff"), and the input and the result of the last       *)
(* tick().                                                                 *)
(***************************************************************************)
newFilter ==
    [filterMode |-> "LPFilter", cutoff |-> CutoffDen,
     buf0 |-> 0, buf1 |-> 0, buf2 |-> 0, buf3 |-> 0,
     op |-> "new", input |-> 0, out |-> 0]

\* nothing observed of the table player yet: the kind of the last call on it
\* ("tick", "set"), whether that call had an invalid argument, whether a
\* tick() has taken the player past its end with no setter called since,
\* and the kind of frame its last tick() returned
NewPlayerHist ==
    [lastCall |-> "none", invalid |-> FALSE, passedEnd |-> FALSE, lastOut |-> "none"]

\* no call on the table player is in progress.  tick: the position of a
\* running tick() ("idle"; "read" after it has read the table at frame i;
\* "moved" after it has advanced the phase; "panic" after a read outside
\* the table); setSpeed: the position of a
\* running SetSpeed() ("idle"; "read" after "currentSpeed :=
\* tp.phaseIncrement") with its arguments; raced: whether a SetSpeed() has
\* written a phase increment whose sign it read before a SetReverse()
\* changed it
NewPlayerCalls ==
    [tick |-> [pc |-> "idle", i |-> 0],
     setSpeed |-> [pc |-> "idle", speedP |-> 0, slideQ |-> 0, currentSpeed |-> 0],
     raced |-> FALSE]

\* a new table player over one of the tables
InitPlayer(files) ==
    /\ player \in {NewTablePlayer(t, DeviceSampleRate) : t \in files}
    /\ playerHist = NewPlayerHist
    /\ playerCalls = NewPlayerCalls
    /\ filter = newFilter

Init ==
    /\ InitEngine
    /\ adsr = newADSREnvelope(0, 0, 0, DeviceSampleRate)
    /\ adsrHist = NewADSRHist
    /\ level = NewLevel(adsr, LevelOne)
    /\ InitPlayer(SoundFiles)

Return(op, err) == ret' = [op |-> op, err |-> err]

(***************************************************************************)
(* Start, Stop, Close, Reopen, Load, Delete: each holds the lock from its  *)
(* first statement to its return and waits for nothing but the end of a    *)
(* running callback (stream.Stop), so each is one step, taken when the     *)
(* lock is free.  A failure of portaudio or of the decoder is a choice.    *)
(***************************************************************************)
\* the check "if e.started" of Start (variant: the check is missing)
startedAlreadyNever == FALSE
startedAlready == started
\* the check "if !e.started" of Stop
notStarted == ~started

Start ==
    /\ ~mutex
    /\ \/ /\ ~initialized
          /\ Return("Start", "errorEngineNotInitialized")
          /\ UNCHANGED engineVars
       \/ /\ initialized /\ startedAlready
          /\ Return("Start", "errorEngineAlreadyStarted")
          /\ UNCHANGED engineVars
       \/ /\ initialized /\ ~startedAlready
          /\ Return("Start", "portaudio")
          /\ UNCHANGED engineVars
       \/ /\ initialized /\ ~startedAlready
          /\ started' = TRUE
          /\ stream' = "active"
          /\ streamSampleRate' = streamParameters.sampleRate
          /\ Return("Start", "nil")
          /\ UNCHANGED <<initialized, streamParameters, tables,
                         activePlaybackEvents, newPlaybackEvents>>
    /\ UNCHANGED <<playVars, cbVars, events, hist, idleVars>>

\* Start as the two steps of its successful run: with the lock taken and
\* the two flags tested, "portaudio.OpenStream(e.streamParameters, ...)"
\* reads the stream parameters; then the stream is started, the flag and
\* the stream's sample rate are saved and the lock is released
StartOpen ==
    /\ ~mutex
    /\ initialized /\ ~startedAlready
    /\ mutex' = TRUE
    /\ startCall' = [pc |-> "opened", parameters |-> streamParameters]
    /\ UNCHANGED <<engineVars, playPending, playPc, cbVars, events, hist, ret, idleVars>>

StartFinish ==
    /\ startCall.pc = "opened"
    /\ started' = TRUE
    /\ stream' = "active"
    /\ streamSampleRate' = startCall.parameters.sampleRate
    /\ mutex' = FALSE
    /\ startCall' = noStartCall
    /\ Return("Start", "nil")
    /\ UNCHANGED <<initialized, streamParameters, tables, activePlaybackEvents,
                   newPlaybackEvents, playPending, playPc, cbVars, events, hist, idleVars>>

Stop ==
    /\ ~mutex
    /\ \/ /\ notStarted
          /\ Return("Stop", "errorEngineNotStarted")
          /\ UNCHANGED engineVars
       \/ /\ ~notStarted
          /\ Return("Stop", "portaudio")
          /\ UNCHANGED engineVars
       \/ /\ ~notStarted
          /\ stream = "active" /\ cbPc = "idle"
          /\ started' = FALSE
          /\ stream' = "stopped"
          /\ \E err \in {"nil", "portaudio"} : Return("Stop", err)
          /\ UNCHANGED <<initialized, streamSampleRate, streamParameters, tables,
                         activePlaybackEvents, newPlaybackEvents>>
    /\ UNCHANGED <<playVars, cbVars, events, hist, idleVars>>

\* Close (variant: the stream is not stopped before the active set is
\* replaced)
CloseWithoutStop ==
    /\ ~mutex
    /\ activePlaybackEvents' = {}
    /\ initialized' = FALSE
    /\ Return("Close", "nil")
    /\ UNCHANGED <<started, stream, streamSampleRate, streamParameters, tables,
                   newPlaybackEvents>>
    /\ UNCHANGED <<playVars, cbVars, events, hist, idleVars>>

Close ==
    /\ ~mutex
    /\ \/ /\ stream # "nil" /\ started
          /\ Return("Close", "portaudio")
          /\ UNCHANGED engineVars
       \/ /\ stream = "active" /\ started /\ cbPc = "idle"
          /\ stream' = "stopped"
          /\ Return("Close", "portaudio")
          /\ UNCHANGED <<initialized, started, streamSampleRate, streamParameters, tables,
                         activePlaybackEvents, newPlaybackEvents>>
       \/ /\ (stream # "nil" /\ started) => (stream = "active" /\ cbPc = "idle")
          /\ started' = FALSE
          /\ stream' = IF stream = "nil" THEN "nil" ELSE "stopped"
          /\ activePlaybackEvents' = {}
          /\ \/ /\ Return("Close", "portaudio")
                /\ UNCHANGED initialized
             \/ /\ Return("Close", "nil")
                /\ initialized' = FALSE
          /\ UNCHANGED <<streamSampleRate, streamParameters, tables, newPlaybackEvents>>
    /\ UNCHANGED <<playVars, cbVars, events, hist, idleVars>>

\* Reopen (variant: the test "if e.initialized" is missing)
ReopenUnchecked ==
    /\ ~mutex
    /\ initialized' = TRUE
    /\ Return("Reopen", "nil")
    /\ UNCHANGED <<started, stream, streamSampleRate, streamParameters, tables,
                   activePlaybackEvents, newPlaybackEvents>>
    /\ UNCHANGED <<playVars, cbVars, events, hist, idleVars>>

Reopen ==
    /\ ~mutex
    /\ \/ /\ initialized
          /\ Return("Reopen", "errorEngineAlreadyInitialized")
          /\ UNCHANGED engineVars
       \/ /\ ~initialized
          /\ Return("Reopen", "portaudio")
          /\ UNCHANGED engineVars
       \/ /\ ~initialized
          /\ initialized' = TRUE
          /\ Return("Reopen", "nil")
          /\ UNCHANGED <<started, stream, streamSampleRate, streamParameters, tables,
                         activePlaybackEvents, newPlaybackEvents>>
    /\ UNCHANGED <<playVars, cbVars, events, hist, idleVars>>

Load(slot, file) ==
    /\ ~mutex
    /\ \/ /\ Return("Load", "decoder")
          /\ UNCHANGED <<tables, deletedSlots>>
       \/ /\ tables' = Put(tables, slot, file)
          /\ deletedSlots' = deletedSlots \ {slot}
          /\ Return("Load", "nil")
    /\ UNCHANGED <<initialized, started, stream, streamSampleRate, streamParameters,
                   activePlaybackEvents, newPlaybackEvents,
                   playVars, cbVars, events, hist, adsrVars, playerVars, filter>>

\* the check "_, exists := e.tables[slot]" of Delete (variant: always true)
tableExistsAlways(slot) == TRUE
tableExists(slot) == slot \in DOMAIN tables

\* a Delete that also retires every active event (for comparison with Delete)
DeleteRetiring(slot) ==
    /\ ~mutex
    /\ slot \in DOMAIN tables
    /\ tables' = [s \in DOMAIN tables \ {slot} |-> tables[s]]
    /\ deletedSlots' = deletedSlots \cup {slot}
    /\ activePlaybackEvents' = {}
    /\ Return("Delete", "nil")
    /\ UNCHANGED <<initialized, started, stream, streamSampleRate, streamParameters,
                   newPlaybackEvents, playVars, cbVars, events, hist, adsrVars,
                   playerVars, filter>>

Delete(slot) ==
    /\ ~mutex
    /\ \/ /\ ~tableExists(slot)
          /\ Return("Delete", "errorTableDoesNotExist")
          /\ UNCHANGED <<tables, deletedSlots>>
       \/ /\ tableExists(slot)
          /\ tables' = [s \in DOMAIN tables \ {slot} |-> tables[s]]
          /\ deletedSlots' = deletedSlots \cup {slot}
          /\ Return("Delete", "nil")
    /\ UNCHANGED <<initialized, started, stream, streamSampleRate, streamParameters,
                   activePlaybackEvents, newPlaybackEvents,
                   playVars, cbVars, events, hist, adsrVars, playerVars, filter>>


(***************************************************************************)
(* SetSampleRate, SetFramesPerBuffer, SetDevices: they take no lock, so    *)
(* each is one step that may fall between two steps of a Play call or of   *)
(* the callback.  Their only test is "if !e.initialized".                  *)
(***************************************************************************)
SetSampleRate(sr) ==
    /\ \/ /\ ~initialized
          /\ Return("SetSampleRate", "errorEngineNotInitialized")
          /\ UNCHANGED streamParameters
       \/ /\ initialized
          /\ streamParameters' = [streamParameters EXCEPT !.sampleRate = sr]
          /\ Return("SetSampleRate", "nil")
    /\ UNCHANGED <<initialized, started, stream, streamSampleRate, tables,
                   activePlaybackEvents, newPlaybackEvents,
                   playVars, cbVars, events, hist, idleVars>>

SetFramesPerBuffer(framesPerBuffer) ==
    /\ \/ /\ ~initialized
          /\ Return("SetFramesPerBuffer", "errorEngineNotInitialized")
          /\ UNCHANGED streamParameters
       \/ /\ initialized
          /\ streamParameters' =
                 [streamParameters EXCEPT !.framesPerBuffer = framesPerBuffer]
          /\ Return("SetFramesPerBuffer", "nil")
    /\ UNCHANGED <<initialized, started, stream, streamSampleRate, tables,
                   activePlaybackEvents, newPlaybackEvents,
                   playVars, cbVars, events, hist, idleVars>>

SetDevices(device) ==
    /\ \/ /\ ~initialized
          /\ Return("SetDevices", "errorEngineNotInitialized")
          /\ UNCHANGED streamParameters
       \/ /\ initialized
          /\ streamParameters' = [streamParameters EXCEPT !.device = device]
          /\ Return("SetDevices", "nil")
    /\ UNCHANGED <<initialized, started, stream, streamSampleRate, tables,
                   activePlaybackEvents, newPlaybackEvents,
                   playVars, cbVars, events, hist, idleVars>>

(***************************************************************************)
(* Prepare (playbackevent.go).  The new event is the next unused id.       *)
(* hist records, per event, the arguments it was prepared with and what    *)
(* has been done to it since.                                              *)
(***************************************************************************)
NewHist(e, delayQ, durationQ) ==
    [delayQ |-> delayQ,
     durationQ |-> durationQ,
     delayInFrames |-> e.delayInFrames,
     durationInFrames |-> e.durationInFrames,
     ticks |-> 0,              \* calls of the event's tick()
     playerTicks |-> 0,        \* calls of its table player's tick()
     delayTicks |-> 0,         \* ticks that returned silence, the player not ticked
     autoReleaseAt |-> 0,      \* the tick on which the event called Release()
     explicitReleases |-> 0,   \* Release() calls made from outside
     doneCount |-> 0,          \* runs of the done action
     played |-> FALSE,         \* whether it has been passed to Play()
     admitted |-> FALSE,       \* whether the callback has put it in the active set
     sinceRelease |-> -1,      \* ticks since Release() on the active event
     lastOut |-> "none"        \* the kind of frame its last tick returned
    ]

\* the check "if !e.started" of Prepare (variant: the check is missing)
prepareNotStartedNever == FALSE
prepareNotStarted == ~started

\* Prepare (variant: the new event is put in the active set at once)
PrepareAdmitting(slot, delayQ, durationQ) ==
    /\ ~mutex
    /\ ~prepareNotStarted /\ slot \in DOMAIN tables
    /\ Cardinality(DOMAIN events) < MaxEvents
    /\ LET p == Cardinality(DOMAIN events) + 1
           e == newPlaybackEvent(tables[slot], streamSampleRate, delayQ, durationQ)
       IN  /\ events' = Put(events, p, e)
           /\ hist' = Put(hist, p, NewHist(e, delayQ, durationQ))
           /\ activePlaybackEvents' = activePlaybackEvents \cup {p}
    /\ Return("Prepare", "nil")
    /\ UNCHANGED <<initialized, started, stream, streamSampleRate, streamParameters, tables,
                   newPlaybackEvents, playVars, cbVars, idleVars>>

Prepare(slot, delayQ, durationQ) ==
    /\ ~mutex
    /\ \/ /\ prepareNotStarted
          /\ Return("Prepare", "errorEngineNotStarted")
          /\ UNCHANGED <<events, hist>>
       \/ /\ ~prepareNotStarted /\ slot \notin DOMAIN tables
          /\ Return("Prepare", "errorTableDoesNotExist")
          /\ UNCHANGED <<events, hist>>
       \/ /\ ~prepareNotStarted /\ slot \in DOMAIN tables
          /\ Cardinality(DOMAIN events) < MaxEvents
          /\ LET p == Cardinality(DOMAIN events) + 1
                 e == newPlaybackEvent(tables[slot], streamSampleRate, delayQ, durationQ)
             IN  /\ events' = Put(events, p, e)
                 /\ hist' = Put(hist, p, NewHist(e, delayQ, durationQ))
          /\ Return("Prepare", "nil")
    /\ UNCHANGED <<engineVars, playVars, cbVars, idleVars>>

(***************************************************************************)
(* Play: takes the lock, sends each event to the channel (a send waits     *)
(* while the channel is full) and releases the lock on return.  Its only   *)
(* test is "playbackEvents == nil", which Play() with no argument meets:   *)
(* the loop over no events sends nothing either way.  An argument that is  *)
(* a nil *playbackEvent is sent like any other.                            *)
(***************************************************************************)
\* the nil *playbackEvent
nilEvent == 0

PlayLock(ps) ==
    /\ ~mutex /\ playPc = "idle"
    /\ mutex' = TRUE
    /\ playPc' = "sending"
    /\ playPending' = ps
    /\ UNCHANGED startCall
    /\ hist' = [p \in DOMAIN hist |->
                    IF \E i \in DOMAIN ps : ps[i] = p
                    THEN [hist[p] EXCEPT !.played = TRUE] ELSE hist[p]]
    /\ UNCHANGED <<engineVars, cbVars, events, ret, idleVars>>

\* whether the send "e.newPlaybackEvents <- playbackEvent" can proceed
canSend(q) == Len(q) < QueueCap

PlaySend ==
    /\ playPc = "sending" /\ playPending # <<>>
    /\ canSend(newPlaybackEvents)
    /\ newPlaybackEvents' = Append(newPlaybackEvents, Head(playPending))
    /\ playPending' = Tail(playPending)
    /\ UNCHANGED <<initialized, started, stream, streamSampleRate, streamParameters, tables,
                   activePlaybackEvents, mutex, playPc, startCall, cbVars, events, hist, ret,
                   idleVars>>

PlayReturn ==
    /\ playPc = "sending" /\ playPending = <<>>
    /\ mutex' = FALSE
    /\ playPc' = "idle"
    /\ Return("Play", "nil")
    /\ UNCHANGED <<engineVars, playPending, startCall, cbVars, events, hist, idleVars>>

(***************************************************************************)
(* streamCallback, run by the audio host while the stream is active, one   *)
(* call at a time.  It takes no lock.  Its steps: the test of the drain    *)
(* loop, a receive from the channel, and the mixing of one output frame    *)
(* (every active event is ticked once; an event whose done action runs is  *)
(* deleted from the active set).                                           *)
(***************************************************************************)
CallbackBegin(frames) ==
    /\ stream = "active" /\ cbPc = "idle"
    /\ cbPc' = "drain"
    /\ cbI' = 0
    /\ cbN' = 0
    /\ cbFrames' = frames
    /\ cbQueued' = newPlaybackEvents
    /\ cbOut' = 0
    /\ UNCHANGED <<engineVars, playVars, events, hist, ret, idleVars>>

\* the loop test "i < len(e.newPlaybackEvents)" (variants: <=; the loop
\* body is never entered)
drainTestInclusive(i, q) == i <= Len(q)
drainTestNever(i, q) == FALSE
drainTest(i, q) == i < Len(q)

CallbackDrainTest ==
    /\ cbPc = "drain"
    /\ IF drainTest(cbI, newPlaybackEvents)
       THEN cbPc' = "recv" /\ cbI' = cbI
       ELSE cbPc' = "mix" /\ cbI' = 0
    /\ UNCHANGED <<engineVars, playVars, cbN, cbFrames, cbQueued, cbOut, events, hist, ret,
                   idleVars>>

\* "e.activePlaybackEvents[<-e.newPlaybackEvents] = true"; the receive waits
\* while the channel is empty
CallbackReceive ==
    /\ cbPc = "recv"
    /\ newPlaybackEvents # <<>>
    /\ LET p == Head(newPlaybackEvents)
       IN  /\ activePlaybackEvents' = activePlaybackEvents \cup {p}
           /\ hist' = IF p = nilEvent THEN hist
                      ELSE [hist EXCEPT ![p].admitted = TRUE]
    /\ newPlaybackEvents' = Tail(newPlaybackEvents)
    /\ cbI' = cbI + 1
    /\ cbPc' = "drain"
    /\ UNCHANGED <<initialized, started, stream, streamSampleRate, streamParameters, tables,
                   playVars, cbN, cbFrames, cbQueued, cbOut, events, ret, idleVars>>

\* hist of an event after the tick with result r
TickHist(h, r) ==
    LET n == h.ticks + 1
    IN  [h EXCEPT !.ticks = n,
                  !.playerTicks = IF r.ticked THEN @ + 1 ELSE @,
                  !.delayTicks = IF ~r.ticked /\ r.out = "silence" THEN @ + 1 ELSE @,
                  !.autoReleaseAt = IF r.released /\ @ = 0 THEN n ELSE @,
                  !.doneCount = IF r.done THEN @ + 1 ELSE @,
                  !.sinceRelease = IF r.done THEN -1
                                   ELSE IF r.released THEN 1
                                   ELSE IF @ >= 0 THEN @ + 1 ELSE @,
                  !.lastOut = r.out]

\* "out[n] = 0.0; out[n+1] = 0.0": the frame before the accumulation,
\* whatever the buffer held (variant: the frame is not cleared)
unclearedFrame(before) == before
clearedFrame(before) == 0

\* (variant of the action below: the events are ticked for the first frame
\* of a buffer only)
CallbackFrameOncePerBuffer(maxTicks) ==
    /\ cbPc = "mix"
    /\ nilEvent \notin activePlaybackEvents
    /\ \A p \in activePlaybackEvents : hist[p].ticks < maxTicks
    /\ LET r == [p \in activePlaybackEvents |-> playbackEventTick(events[p])]
       IN  /\ events' = [p \in DOMAIN events |->
                            IF p \in activePlaybackEvents THEN r[p].ev ELSE events[p]]
           /\ hist' = [p \in DOMAIN hist |->
                            IF p \in activePlaybackEvents THEN TickHist(hist[p], r[p])
                            ELSE hist[p]]
           /\ activePlaybackEvents' = {p \in activePlaybackEvents : ~r[p].done}
           /\ \E before \in 0..1 :
                  cbOut' = clearedFrame(before) +
                               Cardinality({p \in activePlaybackEvents : r[p].out = "table"})
    /\ cbPc' = "idle" /\ cbN' = 0 /\ cbFrames' = 0
    /\ cbQueued' = <<>>
    /\ UNCHANGED <<initialized, started, stream, streamSampleRate, streamParameters, tables,
                   newPlaybackEvents, playVars, cbI, ret, idleVars>>

\* one output frame: every active event is ticked; maxTicks bounds the model.
\* The frame written is counted in table frames: each tick that returns a
\* frame of its table adds one, a tick that returns silence adds nothing;
\* no input device is open, so no input is added
CallbackFrame(maxTicks) ==
    /\ cbPc = "mix"
    /\ nilEvent \notin activePlaybackEvents
    /\ \A p \in activePlaybackEvents : hist[p].ticks < maxTicks
    /\ LET r == [p \in activePlaybackEvents |-> playbackEventTick(events[p])]
       IN  /\ events' = [p \in DOMAIN events |->
                            IF p \in activePlaybackEvents THEN r[p].ev ELSE events[p]]
           /\ hist' = [p \in DOMAIN hist |->
                            IF p \in activePlaybackEvents THEN TickHist(hist[p], r[p])
                            ELSE hist[p]]
           /\ activePlaybackEvents' = {p \in activePlaybackEvents : ~r[p].done}
           /\ \E before \in 0..1 :
                  cbOut' = clearedFrame(before) +
                               Cardinality({p \in activePlaybackEvents : r[p].out = "table"})
    /\ IF cbN + 1 < cbFrames
       THEN cbPc' = "mix" /\ cbN' = cbN + 1 /\ cbFrames' = cbFrames
       ELSE cbPc' = "idle" /\ cbN' = 0 /\ cbFrames' = 0
    /\ cbQueued' = <<>>
    /\ UNCHANGED <<initialized, started, stream, streamSampleRate, streamParameters, tables,
                   newPlaybackEvents, playVars, cbI, ret, idleVars>>

\* "playbackEvent.tick()" on the nil event: tick() reads p.currentState, a nil
\* pointer dereference that ends the process; the events the loop over the
\* map ticked before it are of no consequence then
CallbackPanic ==
    /\ cbPc = "mix"
    /\ nilEvent \in activePlaybackEvents
    /\ cbPc' = "panic"
    /\ UNCHANGED <<engineVars, playVars, cbI, cbN, cbFrames, cbQueued, cbOut, events, hist,
                   ret, idleVars>>

\* the process has not ended in a panic
running == cbPc # "panic"

(***************************************************************************)
(* The calls a holder of an event makes on it (tableplayer.go).  They take *)
(* no lock; each is one step between two steps of the callback.            *)
(* sinceRelease counts the ticks of an event since Release() was last      *)
(* invoked on it while it was in the active set, the tick that invoked it  *)
(* included; -1: no such Release(), or a later setter call, or the event   *)
(* has been removed from the active set since.                             *)
(***************************************************************************)
EventRelease(p) ==
    /\ p \in DOMAIN events
    /\ events' = [events EXCEPT ![p].tablePlayer = Release(@)]
    /\ hist' = [hist EXCEPT ![p].explicitReleases = 1,
                            ![p].sinceRelease =
                                IF p \in activePlaybackEvents THEN 0 ELSE -1]
    /\ UNCHANGED <<engineVars, playVars, cbVars, ret, idleVars>>

EventSetAmplitudeRelease(p, q) ==
    /\ p \in DOMAIN events
    /\ events' = [events EXCEPT ![p].tablePlayer = SetAmplitudeRelease(@, q)]
    /\ hist' = [hist EXCEPT ![p].sinceRelease = -1]
    /\ UNCHANGED <<engineVars, playVars, cbVars, ret, idleVars>>

(***************************************************************************)
(* Spec: the engine with its control calls and the stream callback, over   *)
(* events of one frame's duration.                                         *)
(***************************************************************************)
Next ==
    \/ Start
    \/ Stop
    \/ Close
    \/ Reopen
    \/ \E slot \in Slots, file \in SoundFiles : Load(slot, file)
    \/ \E slot \in Slots : Delete(slot)
    \/ \E slot \in Slots : Prepare(slot, 0, 2)
    \/ \E ps \in SeqsUpTo(DOMAIN events, MaxPlay) : PlayLock(ps)
    \/ PlaySend
    \/ PlayReturn
    \/ \E frames \in 1..MaxFramesPerBuffer : CallbackBegin(frames)
    \/ CallbackDrainTest
    \/ CallbackReceive
    \/ CallbackFrame(MaxTicks)

Spec == Init /\ [][Next]_vars

(***************************************************************************)
(* SpecLifecycle: the control calls of the engine in any order, with one   *)
(* event to prepare, play and mix.                                         *)
(***************************************************************************)
NextLifecycle ==
    \/ Start
    \/ Stop
    \/ Close
    \/ Reopen
    \/ \E slot \in Slots, file \in SoundFiles : Load(slot, file)
    \/ \E slot \in Slots : Delete(slot)
    \/ \E slot \in Slots : events = <<>> /\ Prepare(slot, 0, 2)
    \/ \E ps \in SeqsUpTo(DOMAIN events, MaxPlay) : PlayLock(ps)
    \/ PlaySend
    \/ PlayReturn
    \/ \E frames \in 1..MaxFramesPerBuffer : CallbackBegin(frames)
    \/ CallbackDrainTest
    \/ CallbackReceive
    \/ CallbackFrame(MaxTicks)

SpecLifecycle == Init /\ [][NextLifecycle]_vars

(***************************************************************************)
(* SpecEvent: the life of one event, prepared with any delay and duration  *)
(* of the model, played, ticked by the callback and controlled by its      *)
(* holder.                                                                 *)
(***************************************************************************)
\* the delay and duration arguments of Prepare, in quanta
Delays == {0, 2}
Durations == {-2, 0, 1, 2, MaxQuanta}
NextEvent ==
    \/ Start
    \/ \E slot \in Slots, file \in SoundFiles : Load(slot, file)
    \/ \E slot \in Slots, delayQ \in Delays, durationQ \in Durations :
          events = <<>> /\ Prepare(slot, delayQ, durationQ)
    \/ \E p \in DOMAIN events : PlayLock(<<p>>)
    \/ PlaySend
    \/ PlayReturn
    \/ \E frames \in 1..MaxFramesPerBuffer : CallbackBegin(frames)
    \/ CallbackDrainTest
    \/ CallbackReceive
    \/ CallbackFrame(MaxEventTicks)
    \/ \E p \in DOMAIN events : EventRelease(p)

SpecEvent == Init /\ [][NextEvent]_vars

(***************************************************************************)
(* SpecADSR: an envelope with a done action on its own, under any sequence *)
(* of tick(), attack(), release() and setter calls.                        *)
(***************************************************************************)
\* the envelope time arguments, in quanta
StageTimes == {-2, 0, 2, MaxStageQuanta}

InitADSR ==
    /\ InitEngine
    /\ adsr \in {setDoneAction(newADSREnvelope(a, d, r, DeviceSampleRate)) :
                    a \in StageTimes, d \in StageTimes, r \in StageTimes}
    /\ adsrHist = NewADSRHist
    /\ level = NewLevel(adsr, LevelOne)
    /\ InitPlayer(SoundFiles)

\* whether tick() moves the envelope from the release stage to off
adsrReleaseOver(e) == adsrStageOver(e) /\ e.currentStage = adsrReleaseStage

\* currentLevel after tick(): multiplied by the multiplier while the stage
\* has ticks left, set to the minimum on release -> off, else left alone
adsrLevelAfterTick(e, currentLevel) ==
    CASE e.currentStage \in {adsrOffStage, adsrSustainStage} -> currentLevel
      [] ~adsrStageOver(e) -> "computed"
      [] adsrReleaseOver(e) -> "adsrMinimumLevel"
      [] OTHER -> currentLevel

\* the start level release() passes to calculateLevelMultiplier
releaseStartLevel(e) == "sustainLevel"

\* the envelope of SpecADSR belongs to no event of the engine
engineUntouched ==
    UNCHANGED <<engineVars, playVars, cbVars, events, hist, ret, deletedSlots, playerVars,
                filter>>

ADSRTick ==
    /\ adsrHist.offCount < MaxOffCount
    /\ adsr' = adsrTick(adsr)
    /\ adsrHist' = [adsrHist EXCEPT
                       !.doneCount = @ + (IF adsrDone(adsr) THEN 1 ELSE 0),
                       !.offCount = @ + (IF adsrReleaseOver(adsr) THEN 1 ELSE 0),
                       !.currentLevel = adsrLevelAfterTick(adsr, @)]
    /\ UNCHANGED level
    /\ engineUntouched

ADSRAttack == adsr' = attack(adsr) /\ UNCHANGED <<adsrHist, level>> /\ engineUntouched

ADSRRelease ==
    /\ adsr' = release(adsr)
    /\ adsrHist' = [adsrHist EXCEPT
                       !.release = [stage |-> adsr.currentStage,
                                    startLevel |-> releaseStartLevel(adsr),
                                    currentLevel |-> adsrHist.currentLevel]]
    /\ UNCHANGED level
    /\ engineUntouched

ADSRSetAttack(q) == adsr' = setAttack(adsr, q) /\ UNCHANGED <<adsrHist, level>> /\ engineUntouched

ADSRSetDecay(q) == adsr' = setDecay(adsr, q) /\ UNCHANGED <<adsrHist, level>> /\ engineUntouched

ADSRSetRelease(q) == adsr' = setRelease(adsr, q) /\ UNCHANGED <<adsrHist, level>> /\ engineUntouched

NextADSR ==
    \/ ADSRTick
    \/ ADSRAttack
    \/ ADSRRelease
    \/ \E q \in StageTimes : ADSRSetAttack(q)
    \/ \E q \in StageTimes : ADSRSetDecay(q)
    \/ \E q \in StageTimes : ADSRSetRelease(q)

SpecADSR == InitADSR /\ [][NextADSR]_vars

(***************************************************************************)
(* SpecLevel: the level of an envelope under any sequence of tick(),       *)
(* attack() and release() calls, with no setter called after construction. *)
(* The level is computed in fixed point; a tick() is taken only while the  *)
(* level is within LevelCap times the full level, and at most MaxCalls     *)
(* attack() and release() calls are made.                                  *)
(***************************************************************************)
InitLevel ==
    /\ InitEngine
    /\ adsr \in {newADSREnvelope(a, d, r, DeviceSampleRate) :
                    a \in StageTimes, d \in StageTimes, r \in StageTimes}
    /\ adsrHist = NewADSRHist
    /\ level \in {NewLevel(adsr, s) : s \in {0, LevelOne \div 2, 2 * LevelOne}}
    /\ InitPlayer(SoundFiles)

LevelTick ==
    /\ level.currentLevel <= LevelCap * LevelOne
    /\ level.currentLevel >= -(LevelCap * LevelOne)
    /\ adsr' = adsrTick(adsr)
    /\ LET over == adsrStageOver(adsr)
           ticking == adsr.currentStage \notin {adsrOffStage, adsrSustainStage} /\ ~over
           \* adsr.currentLevel *= adsr.multiplier
           product == (level.currentLevel \div MultiplierOne) * level.multiplier
                      + ((level.currentLevel % MultiplierOne) * level.multiplier)
                            \div MultiplierOne
           after ==
               CASE ticking -> [level EXCEPT !.currentLevel = product]
                 [] over /\ adsr.currentStage = adsrAttackStage ->
                       [level EXCEPT !.multiplier =
                           calculateLevelMultiplier(LevelOne, level.sustain, adsr.decay)]
                 [] over /\ adsr.currentStage = adsrDecayStage ->
                       [level EXCEPT !.multiplier =
                           (level.sustain * MultiplierOne) \div LevelOne]
                 [] over /\ adsr.currentStage = adsrReleaseStage ->
                       [level EXCEPT !.currentLevel = adsrMinimumLevel]
                 [] OTHER -> level
       IN  level' = [after EXCEPT
                        !.op = "tick",
                        !.stageTicks = IF ticking THEN @ + 1 ELSE IF over THEN 0 ELSE @,
                        !.entered = IF over THEN after.currentLevel ELSE @]
    /\ UNCHANGED adsrHist
    /\ engineUntouched

LevelAttack ==
    /\ level.calls < MaxCalls
    /\ adsr' = attack(adsr)
    /\ level' = [level EXCEPT
                    !.multiplier =
                        calculateLevelMultiplier(adsrMinimumLevel, LevelOne, adsr.attack),
                    !.op = "attack", !.stageTicks = 0, !.entered = level.currentLevel,
                    !.retriggered = TRUE, !.calls = @ + 1]
    /\ UNCHANGED adsrHist
    /\ engineUntouched

LevelRelease ==
    /\ level.calls < MaxCalls
    /\ adsr' = release(adsr)
    /\ level' = [level EXCEPT
                    !.multiplier =
                        calculateLevelMultiplier(level.sustain, adsrMinimumLevel, adsr.release),
                    !.op = "release", !.stageTicks = 0, !.entered = level.currentLevel,
                    !.calls = @ + 1]
    /\ UNCHANGED adsrHist
    /\ engineUntouched

NextLevel ==
    \/ LevelTick
    \/ LevelAttack
    \/ LevelRelease

SpecLevel == InitLevel /\ [][NextLevel]_vars

(***************************************************************************)
(* SpecFilter: a filter under any sequence of tick(), setMode() and        *)
(* setCutoff() calls, with samples between -MaxSample and MaxSample.       *)
(***************************************************************************)
FilterTick(input) ==
    /\ LET b0 == filter.buf0 + (filter.cutoff * (input - filter.buf0)) \div CutoffDen
           b1 == filter.buf1 + (filter.cutoff * (b0 - filter.buf1)) \div CutoffDen
           b2 == filter.buf2 + (filter.cutoff * (b1 - filter.buf2)) \div CutoffDen
           b3 == filter.buf3 + (filter.cutoff * (b2 - filter.buf3)) \div CutoffDen
       IN  filter' = [filter EXCEPT
                         !.buf0 = b0, !.buf1 = b1, !.buf2 = b2, !.buf3 = b3,
                         !.op = "tick", !.input = input,
                         !.out = CASE filter.filterMode = "LPFilter" -> b3
                                   [] filter.filterMode = "HPFilter" -> input - b3
                                   [] filter.filterMode = "BPFilter" -> b0 - b3
                                   [] OTHER -> input]
    /\ UNCHANGED <<engineVars, playVars, cbVars, events, hist, ret, deletedSlots,
                   adsrVars, playerVars>>

FilterSetMode(filterMode) ==
    /\ filter' = [filter EXCEPT !.filterMode = filterMode, !.op = "setMode"]
    /\ UNCHANGED <<engineVars, playVars, cbVars, events, hist, ret, deletedSlots,
                   adsrVars, playerVars>>

FilterSetCutoff(cutoff) ==
    /\ filter' = [filter EXCEPT
                     !.cutoff = IF cutoff < 0 THEN 0
                                ELSE IF cutoff > CutoffDen THEN CutoffDen ELSE cutoff,
                     !.op = "setCutoff"]
    /\ UNCHANGED <<engineVars, playVars, cbVars, events, hist, ret, deletedSlots,
                   adsrVars, playerVars>>

NextFilter ==
    \/ \E input \in {-MaxSample, 0, MaxSample} : FilterTick(input)
    \/ \E filterMode \in {"NoFilter", "LPFilter", "HPFilter", "BPFilter"} :
           FilterSetMode(filterMode)
    \/ \E cutoff \in -1..(CutoffDen + 1) : FilterSetCutoff(cutoff)

SpecFilter == Init /\ [][NextFilter]_vars

(***************************************************************************)
(* SpecScenario: a mono table of ScenarioFrames frames at the stream's     *)
(* sample rate, played at speed 1 by one event prepared with delay 0 and a *)
(* duration of ScenarioFrames frames; its release time is set, if at all,  *)
(* before its first tick.                                                  *)
(***************************************************************************)
ScenarioFile ==
    [nFrames |-> ScenarioFrames, channels |-> 1, sampleRate |-> DeviceSampleRate]

\* the duration of ScenarioFrames frames, in quanta
ScenarioDuration == (ScenarioFrames * TimeDen) \div DeviceSampleRate

NextScenario ==
    \/ Start
    \/ \E slot \in Slots : Load(slot, ScenarioFile)
    \/ \E slot \in Slots : events = <<>> /\ Prepare(slot, 0, ScenarioDuration)
    \/ \E p \in DOMAIN events, q \in StageTimes :
          hist[p].ticks = 0 /\ EventSetAmplitudeRelease(p, q)
    \/ \E p \in DOMAIN events : PlayLock(<<p>>)
    \/ PlaySend
    \/ PlayReturn
    \/ \E frames \in 1..MaxFramesPerBuffer : CallbackBegin(frames)
    \/ CallbackDrainTest
    \/ CallbackReceive
    \/ CallbackFrame(ScenarioFrames + ScenarioTail)

SpecScenario == Init /\ [][NextScenario]_vars

(***************************************************************************)
(* Properties of the engine: C1, C3 and C7 are checked under Spec, C2 and  *)
(* C10 under SpecLifecycle (they hold under Spec as well).                 *)
(***************************************************************************)
\* the events of a sequence
Range(q) == {q[i] : i \in 1..Len(q)}

\* a Play call is waiting at the send: the channel is full
playBlocked ==
    playPc = "sending" /\ playPending # <<>> /\ ~canSend(newPlaybackEvents)

\* C1: Play never blocks its caller: a Play call is never left waiting to
\* send to a full admission queue, holding the engine lock, while no stream
\* callback runs that could make room.
C1_PlayNeverBlocks == ~(playBlocked /\ mutex /\ stream # "active")

\* C2: the stream callback never blocks: every receive it performs finds an
\* element in the admission queue, and no step of the callback takes or
\* gives up the engine lock, whatever the concurrent Play calls do.
C2_CallbackNeverBlocks ==
    /\ [](cbPc = "recv" => newPlaybackEvents # <<>>)
    /\ [][cbVars' # cbVars => mutex' = mutex]_vars

\* C2 happens: the callback is at a receive while a Play call that has
\* filled the queue holds the lock and waits to send one more event
C2_Witness ==
    /\ cbPc = "recv"
    /\ mutex /\ playBlocked
    /\ Len(newPlaybackEvents) = QueueCap

\* C3: every event that is in the admission queue when a callback starts is
\* in the active set before that callback mixes its first output frame.
C3_DrainsPendingAdmissions ==
    (cbPc = "mix" /\ cbN = 0) => Range(cbQueued) \subseteq activePlaybackEvents

\* C7: an event that has been retired (its completion callback has removed
\* it from the active set) is never in the active set again, however often
\* it is passed to Play.
C7_RetiredNeverActiveAgain ==
    \A p \in DOMAIN hist : hist[p].doneCount > 0 => p \notin activePlaybackEvents

\* C10: Start() on a started engine returns errorEngineAlreadyStarted and
\* Stop() on an engine that is not started returns errorEngineNotStarted;
\* both leave started, initialized, stream, tables, the active set and the
\* admission queue unchanged.
C10_IllegalSequencingIsAnError ==
    [][/\ (started /\ Start) =>
              /\ ret' = [op |-> "Start", err |-> "errorEngineAlreadyStarted"]
              /\ UNCHANGED engineVars
       /\ (~started /\ Stop) =>
              /\ ret' = [op |-> "Stop", err |-> "errorEngineNotStarted"]
              /\ UNCHANGED engineVars]_vars

\* C10 happens: Start() has returned its error on a started engine that has
\* a table, an active event and a queued event
C10_Witness ==
    /\ started
    /\ ret = [op |-> "Start", err |-> "errorEngineAlreadyStarted"]
    /\ tables # <<>>
    /\ activePlaybackEvents # {}
    /\ newPlaybackEvents # <<>>

(***************************************************************************)
(* Properties of one event, checked under SpecEvent.                       *)
(***************************************************************************)
\* the amplitude envelope of the event p
amplitudeEnvelope(p) == events[p].tablePlayer.amplitudeADSREnvelope

\* C4: for an event prepared with a delay of d frames and a positive
\* duration of t frames, after n ticks: the first min(n, d) ticks returned
\* silence without ticking the table player, every later tick ticked the
\* table player exactly once, and the event has invoked Release() by itself
\* on tick d+t+1 and on no other tick.
C4_DelayDurationRelease ==
    \A p \in DOMAIN hist :
        LET h == hist[p]
            d == h.delayInFrames
            t == h.durationInFrames
            n == h.ticks
        IN  h.durationQ > 0 =>
                /\ h.delayTicks = Min(n, d)
                /\ h.playerTicks = n - Min(n, d)
                /\ h.autoReleaseAt = IF n > d + t THEN d + t + 1 ELSE 0

\* C4 happens: an event with a delay and a duration of at least one frame
\* each has been ticked past its automatic Release()
C4_Witness ==
    \E p \in DOMAIN hist :
        /\ hist[p].durationQ > 0
        /\ hist[p].delayInFrames > 0
        /\ hist[p].durationInFrames > 1
        /\ hist[p].ticks > hist[p].delayInFrames + hist[p].durationInFrames + 1
        /\ hist[p].autoReleaseAt > 0

\* C5: an event prepared with a duration <= 0 on which Release() has not
\* been called explicitly: its own tick never invokes Release(), past its
\* delay it is in UnlimitedDuration (and it is never in LimitedDuration),
\* its amplitude envelope is neither in Release nor Off, its completion
\* callback has not run and, once admitted, it is in the active set.
C5_UnlimitedUntilRelease ==
    \A p \in DOMAIN hist :
        LET h == hist[p]
        IN  (h.durationQ <= 0 /\ h.explicitReleases = 0) =>
                /\ h.autoReleaseAt = 0
                /\ events[p].currentState # playbackLimitedDuration
                /\ h.ticks > h.delayInFrames =>
                       events[p].currentState = playbackUnlimitedDuration
                /\ amplitudeEnvelope(p).currentStage
                       \notin {adsrReleaseStage, adsrOffStage}
                /\ h.doneCount = 0
                /\ h.admitted => p \in activePlaybackEvents

\* C5 happens: an event with a delay and a duration <= 0 has been ticked as
\* often as the model allows and no Release() was called on it
C5_Witness ==
    \E p \in DOMAIN hist :
        /\ hist[p].durationQ <= 0
        /\ hist[p].delayInFrames > 0
        /\ hist[p].explicitReleases = 0
        /\ hist[p].ticks = MaxEventTicks
        /\ p \in activePlaybackEvents

\* C8: once Release() has been invoked on an active event and no Attack,
\* Release or setter call has followed, the event is out of the active set
\* after (release frame count + 1) further ticks.
C8_ReleasedEventIsRemoved ==
    \A p \in DOMAIN hist :
        hist[p].sinceRelease >= amplitudeEnvelope(p).release + 1
            => p \notin activePlaybackEvents

\* C15: an event prepared with a positive duration of less than one frame
\* is limited: with or without a delay of d frames its tick d+1, and no
\* other, invokes Release(); from that tick on its amplitude envelope is in
\* the release or the off stage, and once the release frames have been
\* ticked its completion callback has run, removing it from the active set
\* in the tick that ran it.
C15_SubFrameDurationIsLimited ==
    /\ [](\A p \in DOMAIN hist :
             LET h == hist[p]
                 d == h.delayInFrames
                 n == h.ticks
             IN  (h.durationQ > 0 /\ h.durationInFrames = 0) =>
                     /\ h.autoReleaseAt = IF n > d THEN d + 1 ELSE 0
                     /\ n > d => amplitudeEnvelope(p).currentStage
                                     \in {adsrReleaseStage, adsrOffStage}
                     /\ n > d + amplitudeEnvelope(p).release => h.doneCount = 1)
    /\ [][\A p \in DOMAIN hist :
              hist'[p].doneCount # hist[p].doneCount =>
                  p \notin activePlaybackEvents']_vars

\* C15 happens: an event with a delay and a duration of less than a frame
\* has been ticked past its delay and has been retired
C15_Witness ==
    \E p \in DOMAIN hist :
        /\ hist[p].durationQ > 0
        /\ hist[p].durationInFrames = 0
        /\ hist[p].delayInFrames > 0
        /\ hist[p].ticks > hist[p].delayInFrames
        /\ hist[p].explicitReleases = 0
        /\ hist[p].doneCount = 1
        /\ p \notin activePlaybackEvents

(***************************************************************************)
(* Properties of the envelope, checked under SpecADSR.                     *)
(***************************************************************************)
\* C6: over any sequence of tick(), attack(), release() and setter calls the
\* done action of an envelope runs at most once, and it runs only in a
\* tick() that moves the envelope from the release stage to off.
C6_DoneActionExactlyOnce ==
    /\ [](adsrHist.doneCount <= 1)
    /\ [][adsrHist'.doneCount # adsrHist.doneCount =>
              /\ adsr.currentStage = adsrReleaseStage
              /\ adsr'.currentStage = adsrOffStage
              /\ adsr' = adsrTick(adsr)]_vars

\* C6 happens: the envelope has left its release stage twice (it was
\* re-triggered and released again) and its done action has run once
C6_Witness ==
    /\ adsrHist.offCount = 2
    /\ adsrHist.doneCount = 1
    /\ adsr.currentStage = adsrOffStage

(***************************************************************************)
(* Properties of the scenario, checked under SpecScenario.                 *)
(***************************************************************************)
\* C9 as stated: after exactly ScenarioFrames ticks the amplitude envelope
\* is in the release stage, after releaseFrames further ticks the event is
\* not in the active set, and every later tick returns silence.
C9_ReleaseAfterDuration ==
    \A p \in DOMAIN hist :
        LET n == hist[p].ticks
            r == amplitudeEnvelope(p).release
        IN  /\ n = ScenarioFrames =>
                   amplitudeEnvelope(p).currentStage = adsrReleaseStage
            /\ n = ScenarioFrames + r => p \notin activePlaybackEvents
            /\ n > ScenarioFrames + r => hist[p].lastOut = "silence"

\* C9, amended: through tick ScenarioFrames the amplitude envelope is not in
\* the release stage and the ticks return frames of the table; tick
\* ScenarioFrames + 1 invokes Release(); the envelope is in the release
\* stage for the releaseFrames ticks from that one on; tick
\* ScenarioFrames + releaseFrames + 1, and no other, runs the completion
\* callback that removes the event from the active set; every tick after
\* tick ScenarioFrames returns silence.
C9_ReleaseOnTickAfterDuration ==
    \A p \in DOMAIN hist :
        LET h == hist[p]
            n == h.ticks
            r == amplitudeEnvelope(p).release
            stage == amplitudeEnvelope(p).currentStage
        IN  /\ n <= ScenarioFrames =>
                   /\ stage \notin {adsrReleaseStage, adsrOffStage}
                   /\ h.autoReleaseAt = 0
                   /\ n > 0 => h.lastOut = "table"
            /\ n > ScenarioFrames =>
                   /\ h.autoReleaseAt = ScenarioFrames + 1
                   /\ h.lastOut = "silence"
            /\ (n > ScenarioFrames /\ n <= ScenarioFrames + r) =>
                   /\ stage = adsrReleaseStage
                   /\ p \in activePlaybackEvents
            /\ h.doneCount = IF n > ScenarioFrames + r THEN 1 ELSE 0
            /\ n > ScenarioFrames + r => stage = adsrOffStage

\* C9 happens: the event, with a release of two frames, has just been
\* removed by tick ScenarioFrames + 3
C9_Witness ==
    \E p \in DOMAIN hist :
        /\ amplitudeEnvelope(p).release = 2
        /\ hist[p].ticks = ScenarioFrames + 3
        /\ hist[p].doneCount = 1
        /\ p \notin activePlaybackEvents


(***************************************************************************)
(* SpecConfigure: the configuration calls between Start, Stop, Close and   *)
(* Reopen.                                                                 *)
(***************************************************************************)
SampleRates == {DeviceSampleRate, 2 * DeviceSampleRate}
FramesPerBuffers == {0, MaxFramesPerBuffer}
Devices == {"default", "other"}

NextConfigure ==
    \/ Start
    \/ StartOpen
    \/ StartFinish
    \/ Stop
    \/ Close
    \/ Reopen
    \/ \E sr \in SampleRates : SetSampleRate(sr)
    \/ \E n \in FramesPerBuffers : SetFramesPerBuffer(n)
    \/ \E device \in Devices : SetDevices(device)

SpecConfigure == Init /\ [][NextConfigure]_vars

\* a step that is a call of one of the three configuration setters
configureCall ==
    \/ \E sr \in SampleRates : SetSampleRate(sr)
    \/ \E n \in FramesPerBuffers : SetFramesPerBuffer(n)
    \/ \E device \in Devices : SetDevices(device)

\* C11: while the engine is started, SetSampleRate, SetFramesPerBuffer and
\* the device setter each return an error and leave the stream parameters
\* unchanged.
C11_ConfigureWhileStartedIsAnError ==
    [][(started /\ configureCall)
          => (ret'.err # "nil" /\ UNCHANGED streamParameters)]_vars


(***************************************************************************)
(* SpecAdmission: the registry, Prepare and the way of an event, nil       *)
(* included, from Play to the active set.  One event is prepared; a        *)
(* Prepare that fails can follow at any time.                              *)
(***************************************************************************)
RegistryFiles ==
    SoundFiles \cup {[nFrames |-> 1, channels |-> 1, sampleRate |-> DeviceSampleRate]}

NextAdmission ==
    \/ running /\ Start
    \/ running /\ Stop
    \/ \E slot \in Slots, file \in RegistryFiles : running /\ Load(slot, file)
    \/ \E slot \in Slots : running /\ Delete(slot)
    \/ \E slot \in Slots :
           /\ running
           /\ events = <<>> \/ ~started \/ slot \notin DOMAIN tables
           /\ Prepare(slot, 0, 2)
    \/ \E ps \in SeqsUpTo(DOMAIN events \cup {nilEvent}, 1) : running /\ PlayLock(ps)
    \/ running /\ PlaySend
    \/ running /\ PlayReturn
    \/ running /\ CallbackBegin(1)
    \/ CallbackDrainTest
    \/ CallbackReceive
    \/ CallbackFrame(MaxTicks)
    \/ CallbackPanic

SpecAdmission == Init /\ [][NextAdmission]_vars

\* C12: Prepare on an engine that is not started, or on a slot that holds
\* no table, returns an error (errorEngineNotStarted if not started, else
\* errorTableDoesNotExist) and no event, and leaves the table registry, the
\* admission queue and the active set unchanged.
C12_PrepareErrorChangesNothing ==
    [][\A slot \in Slots :
          (Prepare(slot, 0, 2) /\ (~started \/ slot \notin DOMAIN tables)) =>
              /\ ret' = [op |-> "Prepare",
                         err |-> IF ~started THEN "errorEngineNotStarted"
                                 ELSE "errorTableDoesNotExist"]
              /\ UNCHANGED <<events, tables, newPlaybackEvents,
                             activePlaybackEvents>>]_vars

\* C12 happens: Prepare has returned its error on an engine that was
\* stopped while it had a table, a queued event and an active event
C12_Witness ==
    /\ ret = [op |-> "Prepare", err |-> "errorEngineNotStarted"]
    /\ ~started
    /\ tables # <<>>
    /\ newPlaybackEvents # <<>>
    /\ activePlaybackEvents # {}

\* Delete(slot) on a slot with no table returns errorTableDoesNotExist and
\* leaves the registry unchanged
deleteOfNothingIsAnError ==
    \A slot \in Slots :
        (Delete(slot) /\ slot \notin DOMAIN tables) =>
            /\ ret' = [op |-> "Delete", err |-> "errorTableDoesNotExist"]
            /\ UNCHANGED tables

\* C13 as stated: Delete(slot) on a slot with no table returns an error and
\* leaves the registry unchanged; from a successful Delete(slot) to the next
\* successful Load into the slot every Prepare on it returns
\* errorTableDoesNotExist.
C13_DeletedSlotHasNoTable ==
    [][/\ deleteOfNothingIsAnError
       /\ \A slot \in deletedSlots :
              Prepare(slot, 0, 2) =>
                  ret' = [op |-> "Prepare", err |-> "errorTableDoesNotExist"]]_vars

\* C13, amended: Delete(slot) on a slot with no table returns an error and
\* leaves the registry unchanged; from a successful Delete(slot) to the next
\* successful Load into the slot every Prepare on it returns an error and no
\* event: errorTableDoesNotExist while the engine is started,
\* errorEngineNotStarted while it is not.
C13_DeletedSlotPrepareFails ==
    [][/\ deleteOfNothingIsAnError
       /\ \A slot \in deletedSlots :
              Prepare(slot, 0, 2) =>
                  /\ ret' = [op |-> "Prepare",
                             err |-> IF started THEN "errorTableDoesNotExist"
                                     ELSE "errorEngineNotStarted"]
                  /\ UNCHANGED events]_vars

\* C13 happens: a slot whose table an event was prepared from has been
\* deleted, and Prepare on it has returned errorTableDoesNotExist
C13_Witness ==
    /\ ret = [op |-> "Prepare", err |-> "errorTableDoesNotExist"]
    /\ deletedSlots # {}
    /\ events # <<>>

\* C14: Play with no events, or with a nil event, adds nothing to the
\* admission queue and nothing a later callback would tick: the nil event
\* is never in the queue nor in the active set.
C14_NilPlayIsIgnored ==
    nilEvent \notin Range(newPlaybackEvents) \cup activePlaybackEvents

\* C16: a Delete of a slot or a Load into it changes neither the table any
\* prepared event reads from, nor the admission queue, nor the active set.
C16_EventKeepsItsTable ==
    [][(\E slot \in Slots :
           Delete(slot) \/ \E file \in RegistryFiles : Load(slot, file)) =>
          /\ \A p \in DOMAIN events :
                 /\ p \in DOMAIN events'
                 /\ events'[p].tablePlayer.table = events[p].tablePlayer.table
          /\ UNCHANGED <<newPlaybackEvents, activePlaybackEvents>>]_vars

\* C16 happens: a Load has replaced the table of the slot by another one
\* while the event prepared from the former table is active and, passed to
\* Play once more, in the queue
C16_Witness ==
    /\ ret = [op |-> "Load", err |-> "nil"]
    /\ \E p \in activePlaybackEvents \cap DOMAIN events :
           /\ p \in Range(newPlaybackEvents)
           /\ Slots \subseteq DOMAIN tables
           /\ \A slot \in Slots : tables[slot] # events[p].tablePlayer.table

(***************************************************************************)
(* SpecTablePlayer: a table player on its own, ticked and configured       *)
(* through its setters.  A setter call is recorded with whether its        *)
(* argument was an invalid one: a balance outside [-1, 1], a speed <= 0, a *)
(* slice with start >= end or narrower than one frame.                     *)
(***************************************************************************)
PlayerTables ==
    {[nFrames |-> n, channels |-> 1, sampleRate |-> DeviceSampleRate] :
        n \in {1, MaxTableFrames}}
SliceArgs == {-1, 1, 2, SliceDen, SliceDen + 1}
Speeds == {0, 1, PhaseScale}
SlideTimes == {0, TimeDen}
Balances == {-(BalanceDen + 1), -1, 0, BalanceDen + 1}

InitTablePlayer ==
    /\ InitEngine
    /\ adsr = newADSREnvelope(0, 0, 0, DeviceSampleRate)
    /\ adsrHist = NewADSRHist
    /\ level = NewLevel(adsr, LevelOne)
    /\ InitPlayer(PlayerTables)

\* the table player of SpecTablePlayer belongs to no event of the engine
playerAlone ==
    UNCHANGED <<engineVars, playVars, cbVars, events, hist, ret, deletedSlots, adsrVars,
                filter>>

PlayerTick ==
    /\ player' = tablePlayerTick(player)
    /\ playerHist' = [lastCall |-> "tick",
                      invalid |-> FALSE,
                      passedEnd |-> playerHist.passedEnd \/ passesEnd(player),
                      lastOut |-> tablePlayerOut(player)]
    /\ UNCHANGED playerCalls
    /\ playerAlone

\* a call of a setter that leaves the player as new
PlayerSet(new, invalid) ==
    /\ player' = new
    /\ playerHist' = [lastCall |-> "set",
                      invalid |-> invalid,
                      passedEnd |-> FALSE,
                      lastOut |-> playerHist.lastOut]
    /\ UNCHANGED playerCalls
    /\ playerAlone

\* a slice argument pair with start >= end, or narrower than one frame
invalidSlice(tp, start, end) ==
    \/ start >= end
    \/ sliceFrame(tp, clampSlice(end)) - sliceFrame(tp, clampSlice(start)) < 1

NextTablePlayer ==
    \/ PlayerTick
    \/ \E on \in BOOLEAN : PlayerSet(SetLooping(player, on), FALSE)
    \/ \E a \in SliceArgs, b \in SliceArgs :
           PlayerSet(SetSlice(player, a, b), invalidSlice(player, a, b))
    \/ \E a \in SliceArgs, b \in SliceArgs :
           PlayerSet(SetLoopSlice(player, a, b), invalidSlice(player, a, b))
    \/ PlayerSet(Trigger(player), FALSE)
    \/ \E speed \in Speeds, slide \in SlideTimes :
           PlayerSet(SetSpeed(player, speed, slide), speed <= 0)
    \/ \E on \in BOOLEAN : PlayerSet(SetReverse(player, on), FALSE)
    \/ \E b \in Balances :
           PlayerSet(SetBalance(player, b), b < -BalanceDen \/ BalanceDen < b)

SpecTablePlayer == InitTablePlayer /\ [][NextTablePlayer]_vars

(***************************************************************************)
(* SpecTiming: a table player over a table of its own sample rate, at the  *)
(* sample rate of the device or at kRate frames per second (kMaxTicks = 2),*)
(* under at most MaxPlayerTicks tick() calls and any Trigger(),            *)
(* SetFilterEnvelopeOn() and SetSpeed() calls.  A slide is asked for only  *)
(* when its step, |target - current| / (slideTime * sampleRate), is a      *)
(* whole number of phase units.  Observed: the last call ("tick", "set",   *)
(* "setSpeed"); the number of ticks; for the last SetSpeed() the number of *)
(* ticks of its slide, ceil(slideTime * sampleRate) (0 without a slide),   *)
(* the ticks since, and those of them that found the player not finished   *)
(* (both counted up to the length of the slide); and whether the last tick *)
(* set the cutoff of the filters.                                          *)
(***************************************************************************)
InitTiming ==
    /\ InitEngine
    /\ adsr = newADSREnvelope(0, 0, 0, DeviceSampleRate)
    /\ adsrHist = NewADSRHist
    /\ level = NewLevel(adsr, LevelOne)
    /\ player \in {NewTablePlayer([nFrames |-> n, channels |-> 1, sampleRate |-> sr], sr) :
                      n \in {1, MaxTableFrames}, sr \in {DeviceSampleRate, kRate}}
    /\ playerHist = [lastCall |-> "none", ticks |-> 0, slideN |-> 0, slideTicks |-> 0,
                     slideLive |-> 0, cutoffSet |-> FALSE]
    /\ playerCalls = NewPlayerCalls
    /\ filter = newFilter

TimingTick ==
    /\ playerHist.ticks < MaxPlayerTicks
    /\ player' = tablePlayerTick(player)
    /\ playerHist' =
           [playerHist EXCEPT
               !.lastCall = "tick",
               !.ticks = @ + 1,
               !.slideTicks = IF @ < playerHist.slideN THEN @ + 1 ELSE @,
               !.slideLive = IF @ < playerHist.slideN /\ ~player.isFinished
                             THEN @ + 1 ELSE @,
               \* "if tp.kCurrentTick == 0 { ... setCutoff(cutoff) }"
               !.cutoffSet = /\ ~player.isFinished
                             /\ player.filterEnvelopeOn
                             /\ player.kCurrentTick = 0]
    /\ UNCHANGED playerCalls
    /\ playerAlone

\* a setter call that leaves the player as new; slideN is the length of the
\* slide of a SetSpeed() call, -1 for any other setter
TimingSet(new, slideN) ==
    /\ player' = new
    /\ playerHist' =
           IF slideN < 0 THEN [playerHist EXCEPT !.lastCall = "set"]
           ELSE [playerHist EXCEPT !.lastCall = "setSpeed", !.slideN = slideN,
                                   !.slideTicks = 0, !.slideLive = 0]
    /\ UNCHANGED playerCalls
    /\ playerAlone

NextTiming ==
    \/ TimingTick
    \/ TimingSet(Trigger(player), -1)
    \/ \E on \in BOOLEAN : TimingSet(SetFilterEnvelopeOn(player, on), -1)
    \/ \E speed \in {PhaseScale, 2 * PhaseScale, 3 * PhaseScale},
          slide \in {0, TimeDen, 2 * TimeDen} :
           LET target == IF player.phaseIncrement < 0 THEN -speed ELSE speed
               distance == IF target < player.phaseIncrement
                           THEN player.phaseIncrement - target
                           ELSE target - player.phaseIncrement
           IN  /\ slide > 0 => (distance * TimeDen) % (slide * player.sampleRate) = 0
               /\ TimingSet(SetSpeed(player, speed, slide),
                            (slide * player.sampleRate + TimeDen - 1) \div TimeDen)

SpecTiming == InitTiming /\ [][NextTiming]_vars


\* C17: once a tick() has taken a player that is not looping past its end,
\* and as long as no setter and no Trigger is called on it, isFinished is
\* true and every tick() returns silence.
C17_FinishedStaysFinished ==
    /\ [](playerHist.passedEnd => player.isFinished)
    /\ [][(playerHist.passedEnd /\ PlayerTick)
              => playerHist'.lastOut = "silence"]_vars

\* C17 happens: a player moving forwards over the longer table has been
\* ticked past its end and ticked again
C17_Witness ==
    /\ playerHist.passedEnd
    /\ playerHist.lastOut = "silence"
    /\ player.phaseIncrement > 0
    /\ player.table.nFrames = MaxTableFrames

\* C18: after every tick() of a looping player the frame its phase points
\* at lies within [loopStart, loopEnd].
C18_LoopingPhaseInLoopRegion ==
    (player.isLooping /\ playerHist.lastCall = "tick") =>
        /\ player.loopStart <= Trunc(player.phase, PhaseScale)
        /\ Trunc(player.phase, PhaseScale) <= player.loopEnd

\* the four indices of the player lie inside the table
sliceIndicesInTable ==
    {player.start, player.end, player.loopStart, player.loopEnd}
        \subseteq 0 .. player.table.nFrames - 1

\* C19 as stated: every table player has start < end and
\* loopStart < loopEnd, all four indices inside [0, frameCount).
C19_SliceIndicesOrdered ==
    /\ player.start < player.end
    /\ player.loopStart < player.loopEnd
    /\ sliceIndicesInTable

\* C19, amended: all four indices are inside [0, frameCount); over a table
\* of at least two frames start < end and loopStart < loopEnd; over a table
\* of one frame all four are 0.
C19_SliceIndicesOrderedFromTwoFrames ==
    /\ sliceIndicesInTable
    /\ player.table.nFrames >= 2 =>
           (player.start < player.end /\ player.loopStart < player.loopEnd)
    /\ player.table.nFrames = 1 =>
           (player.start = player.end /\ player.loopStart = player.loopEnd)

\* C19 happens: SetSlice and SetLoopSlice have each moved an index of a
\* player over the longer table, and the last call was one of a setter
\* with an invalid argument
C19_Witness ==
    /\ player.table.nFrames = MaxTableFrames
    /\ player.start > 0
    /\ player.loopEnd < MaxTableFrames - 1
    /\ playerHist.invalid

\* C20: a call of SetBalance, SetSpeed, SetSlice or SetLoopSlice with an
\* invalid argument leaves every field of the table player unchanged.
C20_InvalidArgumentChangesNothing ==
    [][playerHist'.invalid => player' = player]_vars

\* C20 happens: a setter has been called with an invalid argument on a
\* looping, reversed player whose slice, speed and balance had been set
C20_Witness ==
    /\ playerHist.invalid
    /\ player.isLooping /\ player.isReversed
    /\ player.start > 0
    /\ player.phaseIncrement = -1
    /\ player.balanceMultiplierRight < BalanceDen

(***************************************************************************)
(* C21: an event returned by Prepare is inert until it is passed to Play:  *)
(* as long as no Play call has been given the event, it is neither in the  *)
(* admission queue nor in the active set, and no tick() has been called on *)
(* it.                                                                     *)
(***************************************************************************)
C21_PreparedEventIsInert ==
    \A p \in DOMAIN hist :
        ~hist[p].played =>
            /\ p \notin Range(newPlaybackEvents) \cup Range(playPending)
            /\ p \notin activePlaybackEvents
            /\ hist[p].ticks = 0

\* C21 happens: an event that was never passed to Play exists while another
\* event, passed to Play, has been ticked by a callback that is mixing
C21_Witness ==
    /\ cbPc = "mix"
    /\ \E p \in DOMAIN hist, q \in activePlaybackEvents :
           /\ ~hist[p].played
           /\ p < q
           /\ hist[q].played /\ hist[q].ticks > 0

(***************************************************************************)
(* C22: Close() and Reopen().  While the last call to return is a          *)
(* successful Close(), the engine is neither started nor initialized and   *)
(* its stream is not active; a Start() that returns while the engine is    *)
(* not initialized returns the not-initialized error, and only a           *)
(* successful Reopen() makes the engine initialized again; a Reopen() that *)
(* returns on an initialized engine returns the already-initialized error  *)
(* and changes nothing; no Close() and no Reopen() changes the table       *)
(* registry, which only Load and Delete change.                            *)
(***************************************************************************)
C22_CloseThenReopen ==
    /\ [](ret = [op |-> "Close", err |-> "nil"] =>
              ~started /\ ~initialized /\ stream # "active")
    /\ [](ret.op = "Start" /\ ~initialized => ret.err = "errorEngineNotInitialized")
    /\ [][/\ ~initialized /\ initialized' => ret' = [op |-> "Reopen", err |-> "nil"]
          /\ initialized /\ ret'.op = "Reopen" /\ ret' # ret =>
                 /\ ret'.err = "errorEngineAlreadyInitialized"
                 /\ UNCHANGED <<engineVars, playVars, cbVars, events, hist, idleVars>>
          /\ tables' # tables => ret'.op \in {"Load", "Delete"}]_vars

\* C22 happens: an engine that had a table loaded and an event prepared has
\* been closed and reopened, the table still in the registry
C22_Witness ==
    /\ ret = [op |-> "Reopen", err |-> "nil"]
    /\ initialized /\ ~started
    /\ DOMAIN tables # {} /\ DOMAIN events # {}

(***************************************************************************)
(* SpecPlayerRace: a table player whose tick() runs on the audio thread    *)
(* while its setters are called on another thread, with no lock.  tick()   *)
(* takes three steps: it reads the table at "i := int(tp.phase)" (an index *)
(* outside the table is a run-time panic, which ends the process), it      *)
(* advances the phase, it wraps or finishes.  SetSpeed takes two: it reads *)
(* "currentSpeed := tp.phaseIncrement", it writes the increments.  The     *)
(* other setters are one step each.  Coarser steps than the machine's: a   *)
(* state reached here is reached by the program.                           *)
(***************************************************************************)
PlayerTickStep ==
    /\ playerCalls.tick.pc # "panic"
    /\ LET t == playerCalls.tick
           i == Trunc(player.phase, PhaseScale)
       IN  CASE t.pc = "idle" /\ player.isFinished ->
                    /\ player' = tickEnvelopes(player)
                    /\ UNCHANGED playerCalls
             [] t.pc = "idle" /\ ~player.isFinished ->
                    /\ playerCalls' =
                           [playerCalls EXCEPT
                               !.tick = [pc |-> IF i \in 0..(player.table.nFrames - 1)
                                                THEN "read" ELSE "panic",
                                         i |-> i]]
                    /\ UNCHANGED player
             [] t.pc = "read" ->
                    /\ player' = tickMove(player)
                    /\ playerCalls' = [playerCalls EXCEPT !.tick.pc = "moved"]
             [] t.pc = "moved" ->
                    /\ player' = tickWrap(player)
                    /\ playerCalls' = [playerCalls EXCEPT !.tick = NewPlayerCalls.tick]
    /\ UNCHANGED playerHist
    /\ playerAlone

\* SetSpeed up to "currentSpeed := tp.phaseIncrement"
SetSpeedRead(speedP, slideQ) ==
    /\ playerCalls.setSpeed.pc = "idle"
    /\ speedP > 0
    /\ playerCalls' = [playerCalls EXCEPT
                          !.setSpeed = [pc |-> "read", speedP |-> speedP, slideQ |-> slideQ,
                                        currentSpeed |-> player.phaseIncrement]]
    /\ UNCHANGED <<player, playerHist>>
    /\ playerAlone

\* the rest of SetSpeed: the increments are written from currentSpeed
SetSpeedWrite ==
    /\ playerCalls.setSpeed.pc = "read"
    /\ LET c == playerCalls.setSpeed
       IN  /\ player' = SetSpeed([player EXCEPT !.phaseIncrement = c.currentSpeed],
                                 c.speedP, c.slideQ)
           /\ playerCalls' =
                  [playerCalls EXCEPT
                      !.setSpeed = NewPlayerCalls.setSpeed,
                      !.raced = @ \/ ((c.currentSpeed < 0) # (player.phaseIncrement < 0))]
    /\ UNCHANGED playerHist
    /\ playerAlone

\* a call of a setter other than SetSpeed, which leaves the player as new
RaceSet(new) ==
    /\ player' = new
    /\ UNCHANGED <<playerHist, playerCalls>>
    /\ playerAlone

NextPlayerRace ==
    \/ PlayerTickStep
    \/ \E slide \in SlideTimes : SetSpeedRead(1, slide)
    \/ SetSpeedWrite
    \/ \E on \in BOOLEAN : RaceSet(SetLooping(player, on))
    \/ \E a \in {-1, 2} : RaceSet(SetSlice(player, a, SliceDen + 1))
    \/ \E a \in {-1, 2} : RaceSet(SetLoopSlice(player, a, SliceDen + 1))
    \/ RaceSet(Trigger(player))
    \/ \E on \in BOOLEAN : RaceSet(SetReverse(player, on))

SpecPlayerRace == InitTablePlayer /\ [][NextPlayerRace]_vars

(***************************************************************************)
(* C23: whatever the interleaving of SetReverse, SetSpeed, SetLooping,     *)
(* SetSlice, SetLoopSlice and Trigger with the steps of tick(), the frame  *)
(* index at which tick() reads the table is within [0, frameCount - 1].    *)
(***************************************************************************)
C23_FrameIndexInTable ==
    /\ playerCalls.tick.pc # "panic"
    /\ playerCalls.tick.pc = "read" =>
           playerCalls.tick.i \in 0..(player.table.nFrames - 1)

(***************************************************************************)
(* C26: as long as no SetSpeed has written increments whose sign it read   *)
(* before a concurrent SetReverse changed it, which calls made one after   *)
(* the other never do, the signs of phaseIncrement and of                  *)
(* targetPhaseIncrement agree with isReversed.                             *)
(***************************************************************************)
C26_SignAgreesUnlessRaced ==
    ~playerCalls.raced =>
        /\ (player.phaseIncrement < 0) <=> player.isReversed
        /\ (player.targetPhaseIncrement < 0) <=> player.isReversed

\* C26 happens: a SetSpeed has overwritten the sign flip a concurrent
\* SetReverse made, and the sign of phaseIncrement disagrees with isReversed
C26_Witness ==
    /\ playerCalls.raced
    /\ playerCalls.setSpeed.pc = "idle"
    /\ (player.phaseIncrement < 0) # player.isReversed

(***************************************************************************)
(* C24: the active set has one owner.  A callback is in progress only      *)
(* while the stream is active; while one is in progress, only a step of    *)
(* the callback (the drain's receive, the mixing of a frame with its       *)
(* completion callbacks) changes the active set; the only other step that  *)
(* changes it is a Close(), taken when no callback is in progress and      *)
(* leaving the stream not active.                                          *)
(***************************************************************************)
C24_ActiveSetHasOneOwner ==
    /\ [](cbPc # "idle" => stream = "active")
    /\ [][activePlaybackEvents' # activePlaybackEvents =>
             \/ cbPc \in {"recv", "mix"} /\ cbVars' # cbVars /\ ret' = ret
             \/ /\ cbPc = "idle" /\ cbVars' = cbVars
                /\ ret'.op = "Close"
                /\ stream' # "active"]_vars

\* C24 happens: a Close() has replaced an active set that held an event
\* (admitted by a callback, its completion callback never run)
C24_Witness ==
    /\ ret = [op |-> "Close", err |-> "nil"]
    /\ activePlaybackEvents = {}
    /\ \E p \in DOMAIN hist : hist[p].admitted /\ hist[p].doneCount = 0

(***************************************************************************)
(* C25: Start, Stop, Close, Reopen and the configuration setters exclude   *)
(* one another: while a Start call holds the lock, between its read of the *)
(* stream parameters and its return, no configuration setter runs.         *)
(***************************************************************************)
C25_SettersExcludeStart ==
    [][startCall.pc = "opened" => ~configureCall]_vars

(***************************************************************************)
(* C27: each output frame of a callback ticks every event that is in the   *)
(* active set at that frame exactly once and no other event, and the frame *)
(* written is the sum of the results of those ticks alone (one per tick    *)
(* that returned a frame of its table), whatever the buffer held before.   *)
(***************************************************************************)
C27_FrameIsSumOfActiveTicks ==
    [][(cbPc = "mix" /\ (cbN' # cbN \/ cbPc' # cbPc)) =>
          /\ \A p \in DOMAIN hist :
                 hist'[p].ticks =
                     hist[p].ticks + (IF p \in activePlaybackEvents THEN 1 ELSE 0)
          /\ cbOut' = Cardinality({p \in activePlaybackEvents :
                                      hist'[p].lastOut = "table"})]_vars

\* C27 happens: the callback has written a frame that two active events
\* each added a frame of their table to
C27_Witness ==
    /\ cbOut = 2
    /\ \E p \in DOMAIN hist, q \in DOMAIN hist :
           /\ p # q
           /\ hist[p].lastOut = "table" /\ hist[q].lastOut = "table"

(***************************************************************************)
(* C28: removal during the iteration is safe.  An event whose completion   *)
(* callback has run is ticked no more, neither by a later frame of the     *)
(* callback nor by a later callback; and in the frame in which a           *)
(* completion callback runs every active event is ticked exactly once.     *)
(***************************************************************************)
C28_RemovedEventIsTickedNoMore ==
    [][/\ \A p \in DOMAIN hist :
             hist[p].doneCount > 0 => hist'[p].ticks = hist[p].ticks
       /\ \A p \in DOMAIN hist :
             hist'[p].doneCount > hist[p].doneCount =>
                 \A q \in activePlaybackEvents : hist'[q].ticks = hist[q].ticks + 1]_vars

(***************************************************************************)
(* SpecLive: an engine that is started and never stopped, so that the      *)
(* audio host keeps invoking the stream callback, and whose Play calls run *)
(* on: the host takes the callback's next step whenever it has one, and a  *)
(* Play call that can send or return does so.  Each event is passed to     *)
(* Play once (a second Play of an event is the subject of C7).             *)
(***************************************************************************)
callbackStep ==
    \/ \E frames \in 1..MaxFramesPerBuffer : CallbackBegin(frames)
    \/ CallbackDrainTest
    \/ CallbackReceive
    \/ CallbackFrame(MaxEventTicks)

NextLive ==
    \/ Start
    \/ \E slot \in Slots, file \in SoundFiles : Load(slot, file)
    \/ \E slot \in Slots : Prepare(slot, 0, 2)
    \/ \E ps \in SeqsUpTo({p \in DOMAIN events : ~hist[p].played}, MaxPlay) :
           /\ \A i \in DOMAIN ps, j \in DOMAIN ps : ps[i] = ps[j] => i = j
           /\ PlayLock(ps)
    \/ PlaySend
    \/ PlayReturn
    \/ callbackStep

SpecLive ==
    /\ Init
    /\ [][NextLive]_vars
    /\ WF_vars(callbackStep)
    /\ WF_vars(PlaySend)

(***************************************************************************)
(* C29: no submitted event is lost.  While the stream callback keeps being *)
(* invoked, every event passed to Play is eventually put in the active     *)
(* set; and the event a callback puts in the active set is the one that    *)
(* has been in the queue longest, so that no event is admitted before an   *)
(* event queued before it.                                                 *)
(***************************************************************************)
C29_NoSubmittedEventIsLost ==
    /\ \A p \in 1..MaxEvents :
           (p \in DOMAIN hist /\ hist[p].played) ~> (p \in DOMAIN hist /\ hist[p].admitted)
    /\ [][\A p \in DOMAIN hist :
             (hist'[p].admitted /\ ~hist[p].admitted) => p = Head(newPlaybackEvents)]_vars

\* C29 happens: two events were passed to Play, the second queued behind
\* the first, and both have been put in the active set
C29_Witness ==
    /\ DOMAIN hist = 1..MaxEvents
    /\ \A p \in DOMAIN hist : hist[p].played /\ hist[p].admitted
    /\ newPlaybackEvents = <<>>

(***************************************************************************)
(* C30: a release() called in the attack, decay or sustain stage computes  *)
(* the release multiplier with the level the envelope has at the call as   *)
(* its start level.                                                        *)
(***************************************************************************)
C30_ReleaseStartsAtCurrentLevel ==
    adsrHist.release.stage \in {adsrAttackStage, adsrDecayStage, adsrSustainStage} =>
        adsrHist.release.startLevel = adsrHist.release.currentLevel

(***************************************************************************)
(* C31: an attack() called on an envelope whose level is above 0 and at    *)
(* most 1 re-enters the attack stage from that level, and the level stays  *)
(* at most 1 throughout the re-triggered attack stage.                     *)
(***************************************************************************)
C31_RetriggeredAttackStaysBelowOne ==
    (/\ adsr.currentStage = adsrAttackStage
     /\ level.retriggered
     /\ level.entered > 0
     /\ level.entered <= LevelOne) => level.currentLevel <= LevelOne

(***************************************************************************)
(* C32: with no setter called, an attack, decay or release stage of N      *)
(* frames lasts exactly N ticks, each of which multiplies the level by the *)
(* multiplier of the stage, and tick N+1 moves the envelope to the next    *)
(* stage (attack to decay, decay to sustain, release to off); a tick in    *)
(* the sustain or off stage changes neither the stage nor the level.       *)
(***************************************************************************)
C32_StageLastsItsFrames ==
    /\ [](adsr.currentStage \notin {adsrOffStage, adsrSustainStage} =>
            /\ level.stageTicks = adsr.currentTick
            /\ level.stageTicks <= adsrStageFrames(adsr))
    /\ [][level'.op = "tick" =>
            IF adsr.currentStage \in {adsrOffStage, adsrSustainStage}
            THEN /\ adsr'.currentStage = adsr.currentStage
                 /\ level'.currentLevel = level.currentLevel
            ELSE IF level.stageTicks < adsrStageFrames(adsr)
            THEN /\ adsr'.currentStage = adsr.currentStage
                 /\ level'.stageTicks = level.stageTicks + 1
                 /\ level'.multiplier = level.multiplier
                 /\ level'.currentLevel =
                        (level.currentLevel \div MultiplierOne) * level.multiplier
                        + ((level.currentLevel % MultiplierOne) * level.multiplier)
                              \div MultiplierOne
            ELSE /\ level'.stageTicks = 0
                 /\ adsr'.currentStage =
                        CASE adsr.currentStage = adsrAttackStage -> adsrDecayStage
                          [] adsr.currentStage = adsrDecayStage -> adsrSustainStage
                          [] adsr.currentStage = adsrReleaseStage -> adsrOffStage]_vars

\* a new envelope with an attack of 2 frames has just entered the decay
\* stage, its level multiplied twice by the attack multiplier 5.605
C32_Witness ==
    /\ adsr.currentStage = adsrDecayStage
    /\ adsr.attack = 2
    /\ level.calls = 0
    /\ level.op = "tick"
    /\ level.stageTicks = 0
    /\ level.entered = 3138

(***************************************************************************)
(* C33: the level of an envelope is always above 0 and at most 1, and a    *)
(* tick in the attack, decay or release stage moves the level towards the  *)
(* target of the stage (1, the sustain level, the minimum level) and not   *)
(* past it.                                                                *)
(***************************************************************************)
C33_LevelStaysInRange ==
    /\ [](level.currentLevel > 0 /\ level.currentLevel <= LevelOne)
    /\ [][(level'.op = "tick" /\ adsr'.currentStage = adsr.currentStage) =>
            CASE adsr.currentStage = adsrAttackStage ->
                    /\ level.currentLevel <= level'.currentLevel
                    /\ level'.currentLevel <= LevelOne
              [] adsr.currentStage = adsrDecayStage ->
                    /\ level'.currentLevel <= level.currentLevel
                    /\ level.sustain <= level'.currentLevel
              [] adsr.currentStage = adsrReleaseStage ->
                    /\ level'.currentLevel <= level.currentLevel
                    /\ adsrMinimumLevel <= level'.currentLevel
              [] OTHER -> TRUE]_vars

(***************************************************************************)
(* C34: an envelope that leaves a stage of less than one frame has the     *)
(* target level of that stage: level 1 when it enters the decay stage      *)
(* after an attack of 0 frames, the sustain level when it enters the       *)
(* sustain stage after a decay of 0 frames.                                *)
(***************************************************************************)
C34_EmptyStageReachesItsTarget ==
    (level.op = "tick" /\ level.stageTicks = 0) =>
        /\ (adsr.currentStage = adsrDecayStage /\ adsr.attack = 0) =>
               level.currentLevel = LevelOne
        /\ (adsr.currentStage = adsrSustainStage /\ adsr.decay = 0) =>
               level.currentLevel = level.sustain

(***************************************************************************)
(* C35: a tick() of a filter in mode NoFilter returns its input and leaves *)
(* the integrators buf0, buf1, buf2 and buf3 as they were.                 *)
(***************************************************************************)
C35_NoFilterTickHasNoEffect ==
    [][(filter'.op = "tick" /\ filter.filterMode = "NoFilter") =>
            /\ filter'.out = filter'.input
            /\ filter'.buf0 = filter.buf0
            /\ filter'.buf1 = filter.buf1
            /\ filter'.buf2 = filter.buf2
            /\ filter'.buf3 = filter.buf3]_vars

(***************************************************************************)
(* C36: Trigger() puts the phase at start when the player plays forwards   *)
(* and at end when it is reversed, clears isFinished, and leaves the       *)
(* amplitude envelope and the filter envelope as they were.                *)
(***************************************************************************)
C36_TriggerLeavesEnvelopes ==
    [][PlayerSet(Trigger(player), FALSE) =>
            /\ player'.phase = PhaseScale * (IF player.isReversed THEN player.end
                                             ELSE player.start)
            /\ player'.isReversed = player.isReversed
            /\ ~player'.isFinished
            /\ player'.amplitudeADSREnvelope = player.amplitudeADSREnvelope
            /\ player'.filterADSREnvelope = player.filterADSREnvelope]_vars

\* a reversed player whose amplitude envelope has reached the sustain stage
\* stands at its end, not finished, after a setter call
C36_Witness ==
    /\ playerHist.lastCall = "set"
    /\ player.isReversed
    /\ ~player.isFinished
    /\ player.end > player.start
    /\ player.phase = PhaseScale * player.end
    /\ player.amplitudeADSREnvelope.currentStage = adsrSustainStage

C38_FilterEnvelopeAtControlRate ==
    [][TimingTick =>
          /\ player.filterEnvelopeOn =>
                /\ player'.filterADSREnvelope = adsrTick(player.filterADSREnvelope)
                /\ player'.kCurrentTick = (player.kCurrentTick + 1) % player.kMaxTicks
                /\ playerHist'.cutoffSet => player.kCurrentTick = 0
                /\ (~player.isFinished /\ player.kCurrentTick = 0) => playerHist'.cutoffSet
          /\ ~player.filterEnvelopeOn =>
                /\ player'.filterADSREnvelope = player.filterADSREnvelope
                /\ player'.kCurrentTick = player.kCurrentTick
                /\ ~playerHist'.cutoffSet]_vars

\* at kMaxTicks = 2, four ticks with the filter envelope on have taken its
\* envelope to tick 3 of the decay stage and the counter back to 0; the
\* last of them set no cutoff
C38_Witness ==
    /\ player.kMaxTicks = 2
    /\ player.filterEnvelopeOn
    /\ playerHist.lastCall = "tick"
    /\ ~playerHist.cutoffSet
    /\ player.kCurrentTick = 0
    /\ player.filterADSREnvelope.currentStage = adsrDecayStage
    /\ player.filterADSREnvelope.currentTick = 3

(***************************************************************************)
(* C39: the timing of an event is counted in frames, whatever the sizes of *)
(* the buffers: a callback ends after exactly as many frames as its buffer *)
(* has, each of its frames ticks every active event once and nothing else  *)
(* ticks an event; and an event on which no Release() was called from      *)
(* outside is, after k ticks, in the state that k calls of tick() give the *)
(* prepared event, its last tick has returned what the k-th of them        *)
(* returns, and it has released itself on the tick on which these do.      *)
(***************************************************************************)
C39_TimingCountedInFrames ==
    /\ [](\A p \in DOMAIN events :
            hist[p].explicitReleases = 0 =>
                LET prepared ==
                        newPlaybackEvent(events[p].tablePlayer.table,
                                         events[p].tablePlayer.sampleRate,
                                         hist[p].delayQ, hist[p].durationQ)
                    RECURSIVE after(_)
                    after(k) == IF k = 0 THEN prepared
                                ELSE playbackEventTick(after(k - 1)).ev
                IN  /\ events[p] = after(hist[p].ticks)
                    /\ hist[p].ticks > 0 =>
                           hist[p].lastOut =
                               playbackEventTick(after(hist[p].ticks - 1)).out
                    /\ \A k \in 1..hist[p].ticks :
                           playbackEventTick(after(k - 1)).released
                               <=> hist[p].autoReleaseAt = k)
    /\ [][IF cbPc = "mix" /\ (cbN' # cbN \/ cbPc' # "mix")
          THEN /\ (cbPc' = "idle") <=> (cbN + 1 = cbFrames)
               /\ cbPc' = "mix" => cbN' = cbN + 1 /\ cbFrames' = cbFrames
               /\ \A p \in DOMAIN hist :
                      hist'[p].ticks = hist[p].ticks +
                          (IF p \in activePlaybackEvents THEN 1 ELSE 0)
          ELSE \A p \in DOMAIN hist : hist'[p].ticks = hist[p].ticks]_vars

\* an event prepared with a delay of one frame and a duration of two has
\* released itself on its fourth tick, which was the first frame of a
\* buffer of two frames: the three ticks before came in buffers of other
\* sizes
C39_Witness ==
    /\ DOMAIN hist = {1}
    /\ hist[1].delayInFrames = 1
    /\ hist[1].durationInFrames = 2
    /\ hist[1].explicitReleases = 0
    /\ hist[1].ticks = 4
    /\ hist[1].autoReleaseAt = 4
    /\ cbPc = "mix"
    /\ cbFrames = 2
    /\ cbN = 1

=============================================================================
